---- MODULE Spec2Model ----
(***************************************************************************)
(* Koney: the alert forwarder (HTTP trigger, debouncer, timer, log scan,   *)
(* dedup cache, fingerprint filter) and the captor generator (tracing      *)
(* policy names and objects).                                              *)
(*                                                                         *)
(* Go strings are sequences of one-character strings, so that             *)
(* strings.Contains and strings.HasPrefix are computed, not assumed.       *)
(* Time is counted in whole seconds.                                       *)
(***************************************************************************)
EXTENDS Integers, Sequences, FiniteSets, TLC

VARIABLES
    reqs,         \* HTTP requests whose handler has not answered yet
    lastResponse, \* the response written last (a sequence of no or one record)
    triggerChan,  \* number of signals buffered in alertHandler.triggerChan
    timers,       \* every time.Timer the debouncer created, oldest first
    timer,        \* the debouncer's local variable: index into timers, 0 = nil
    scans,        \* every processRecentAlerts call, in order of start
    eventCache,   \* the package-level sync.Map of event hashes
    pods,         \* what the cluster answers for the Tetragon pods and their logs
    hist,         \* what happened so far: counts and gaps of the triggers
    uids,         \* number of deception policies created so far
    dpolicies,    \* deception policies present in the cluster
    tpolicies,    \* tracing-policy objects present in the cluster, by name
    matchCall,    \* the MatchContainerName call at hand: arguments and result
    secrets,      \* the Secret objects of the cluster, by namespace and name
    secretCalls,  \* the createSecret calls made so far, with what they returned
    logger,       \* the environment of the forwarder process and its appLogger
    window        \* the debouncer over a long run: timer and age of the events

fwdVars == <<reqs, lastResponse, triggerChan, timers, timer, scans, eventCache,
             pods, hist>>
ctlVars == <<uids, dpolicies, tpolicies>>
libVars == <<matchCall, secrets, secretCalls, logger, window>>
vars == <<reqs, lastResponse, triggerChan, timers, timer, scans, eventCache,
          pods, hist, uids, dpolicies, tpolicies,
          matchCall, secrets, secretCalls, logger, window>>

\* Nothing was matched, no secret exists, the logger of a process started
\* without DEBUG and LOG_LEVEL, and no long run is followed.
LibIdle ==
    /\ matchCall = <<>>
    /\ secrets = <<>>
    /\ secretCalls = <<>>
    /\ logger = <<>>
    /\ window = <<>>

(***************************************************************************)
(* Bounds of the model.                                                    *)
(***************************************************************************)
\* GET requests sent to the forwarder in one run.
MaxRequests == 3

NoValue == <<"nil">>

(***************************************************************************)
(* Strings.                                                                *)
(***************************************************************************)
Contains(s, substr) ==
    \E i \in 0..(Len(s) - Len(substr)) : SubSeq(s, i + 1, i + Len(substr)) = substr

\* A test for the prefix anywhere in s.
HasPrefix_Anywhere(s, prefix) == Contains(s, prefix)

HasPrefix(s, prefix) ==
    Len(s) >= Len(prefix) /\ SubSeq(s, 1, Len(prefix)) = prefix

DigitChars == <<"0","1","2","3","4","5","6","7","8","9">>

RECURSIVE FormatInt(_, _)
FormatInt(n, base) ==
    IF n < base THEN <<DigitChars[n + 1]>>
    ELSE FormatInt(n \div base, base) \o <<DigitChars[(n % base) + 1]>>

(***************************************************************************)
(* Fingerprint codec.                                                      *)
(***************************************************************************)
KoneyFingerprint == 1337

StrKoneyFingerprint ==
    <<"K","O","N","E","Y","_","F","I","N","G","E","R","P","R","I","N","T","_">>

EncodeFingerprintInEcho(code) == StrKoneyFingerprint \o FormatInt(code, 10)

\* The two tokens the wrong way round.
CatToken_Swapped(bit) == IF bit = "0" THEN <<"-","u","u">> ELSE <<"-","u">>

\* The token written for one binary digit.
CatToken(bit) == IF bit = "0" THEN <<"-","u">> ELSE <<"-","u","u">>

RECURSIVE CatBuilder(_, _)
CatBuilder(binaryCode, i) ==
    IF i > Len(binaryCode) THEN <<>>
    ELSE (IF i > 1 THEN <<" ">> ELSE <<>>)
         \o CatToken(binaryCode[i])
         \o CatBuilder(binaryCode, i + 1)

EncodeFingerprintInCat(code) == CatBuilder(FormatInt(code, 2), 1)

(***************************************************************************)
(* Tetragon log lines.  A line is the JSON text of one event; the record   *)
(* keeps the parts of the text the forwarder looks at.                     *)
(***************************************************************************)
TetragonPolicyPrefix ==
    <<"k","o","n","e","y","-","t","r","a","c","i","n","g","-","p","o","l","i","c","y","-">>

TetragonDeceptionPolicyRef == "koney/deception-policy"

SinceSeconds == 60

TrapTypeUnknown == "unknown"
TrapTypeFilesystemHoneytoken == "filesystem_honeytoken"

\* strings.Contains(line, s) on the raw text: s lies inside one of the string
\* values of the line (no s of the model spans two JSON values).
LineContains(line, s) ==
    \/ (line.policy_name # NoValue /\ Contains(line.policy_name, s))
    \/ Contains(line.arguments, s)
    \/ (line.file_path # NoValue /\ Contains(line.file_path, s))

\* timePattern.ReplaceAllString(line, "$1$2"): a fraction of exactly nine
\* digits is cut out of the "time" value, any other fraction stays.
NormalizeTime(line) ==
    [line EXCEPT !.frac = IF Len(@) = 9 THEN <<>> ELSE @]

\* A parser that takes any text for an event.
JsonUnmarshal_AcceptsAll(line) == [err |-> FALSE, event |-> <<line>>]

\* json.Unmarshal: an error for text that is not JSON, else the event.
JsonUnmarshal(line) ==
    IF line.valid THEN [err |-> FALSE, event |-> <<line>>]
    ELSE [err |-> TRUE, event |-> <<>>]

extractTracingPolicyName(event) == event.policy_name

\* md5.Sum of the text, taken as collision-free: the digest of a text is the
\* text under a tag.
Md5Sum(line) == [md5 |-> line]

\* A Store that never reports the key as present.
LoadOrStore_StoreOnly(cache, key) ==
    [exists |-> FALSE, cache |-> cache \cup {key}]

\* sync.Map.LoadOrStore(key, true): one atomic step.
LoadOrStore(cache, key) ==
    [exists |-> key \in cache, cache |-> cache \cup {key}]

\* One pass of the scanner loop of ReadTetragonEvents over one line.
ReadLine(line, cache) ==
    IF ~LineContains(line, TetragonPolicyPrefix)
    THEN [collect |-> FALSE, cache |-> cache, event |-> <<>>]
    ELSE LET normalized == NormalizeTime(line)
             parsed == JsonUnmarshal(normalized)
         IN  IF parsed.err
             THEN [collect |-> FALSE, cache |-> cache, event |-> <<>>]
             ELSE LET policyName == extractTracingPolicyName(parsed.event[1])
                  IN  IF policyName = NoValue \/ ~HasPrefix(policyName, TetragonPolicyPrefix)
                      THEN [collect |-> FALSE, cache |-> cache, event |-> <<>>]
                      ELSE LET r == LoadOrStore(cache, Md5Sum(normalized))
                           IN  [collect |-> ~r.exists, cache |-> r.cache,
                                event |-> parsed.event]

fileAccessFns == {"security_file_permission", "security_mmap_file"}

\* Only security_file_permission counts as a file access.
extractMetadataForFilesystemHoneytoken_PermissionOnly(processKprobe) ==
    IF processKprobe.function_name # "security_file_permission" THEN <<>>
    ELSE <<[file_path |-> processKprobe.file_path]>>

\* nil when the function is not a file-access function, else the metadata
\* map (a sequence of no or one map stands for a nil-able map).
\* args is the shape of processKprobe["args"]: "none" (no args, or args[0] is
\* no map), "noFileArg", "noPath" (file_arg without a path string), "path".
extractMetadataForFilesystemHoneytoken(processKprobe) ==
    IF processKprobe.function_name \notin fileAccessFns THEN <<>>
    ELSE IF processKprobe.args \in {"none", "noFileArg"}
         THEN <<[file_path |-> NoValue]>>
         ELSE IF processKprobe.args = "noPath"
              THEN <<[file_path |-> <<>>]>>
              ELSE <<[file_path |-> processKprobe.file_path]>>

\* The kind served under cilium.io/v1alpha1 tracingpolicies.
TetragonTracingPoliciesKind == "TracingPolicy"

\* A lookup that reports no error and gives the empty name when it fails.
resolveDeceptionPolicyName_NoError(cluster, tracingPolicyName, apiOk) ==
    IF /\ apiOk
       /\ tracingPolicyName \in DOMAIN cluster
       /\ cluster[tracingPolicyName].kind = "TracingPolicy"
       /\ TetragonDeceptionPolicyRef \in DOMAIN cluster[tracingPolicyName].labels
    THEN [err |-> FALSE,
          name |-> cluster[tracingPolicyName].labels[TetragonDeceptionPolicyRef]]
    ELSE [err |-> FALSE, name |-> ""]

\* dynamicClient.Get of the tracing policy among the cilium.io
\* tracingpolicies, and its koney/deception-policy label; apiOk is whether
\* the cluster API answered.
resolveDeceptionPolicyName(cluster, tracingPolicyName, apiOk) ==
    IF ~apiOk \/ tracingPolicyName \notin DOMAIN cluster
    THEN [err |-> TRUE, name |-> NoValue]
    ELSE IF cluster[tracingPolicyName].kind # TetragonTracingPoliciesKind
    THEN [err |-> TRUE, name |-> NoValue]
    ELSE IF TetragonDeceptionPolicyRef \notin DOMAIN cluster[tracingPolicyName].labels
         THEN [err |-> TRUE, name |-> NoValue]
         ELSE [err |-> FALSE,
               name |-> cluster[tracingPolicyName].labels[TetragonDeceptionPolicyRef]]

\* The alert of an event; deception_policy_name is a sequence of no or one
\* name (a nil-able string).
MapTetragonEvent(cluster, event, apiOk) ==
    LET tracingPolicyName == extractTracingPolicyName(event)
        resolved == IF tracingPolicyName # NoValue
                    THEN resolveDeceptionPolicyName(cluster, tracingPolicyName, apiOk)
                    ELSE [err |-> TRUE, name |-> NoValue]
        meta == IF event.kprobe
                THEN extractMetadataForFilesystemHoneytoken(event)
                ELSE <<>>
    IN  [timestamp |-> <<event.sec, event.frac>>,
         deception_policy_name |-> IF resolved.err THEN <<>> ELSE <<resolved.name>>,
         trap_type |-> IF meta # <<>> THEN TrapTypeFilesystemHoneytoken
                       ELSE TrapTypeUnknown,
         metadata |-> meta,
         pod |-> event.pod,
         process |-> IF event.hasProcess
                     THEN <<[pid |-> event.pid, arguments |-> event.arguments]>>
                     ELSE <<>>]

\* Only the echo form is looked for.
IsFilteredEvent_EchoOnly(event, fingerprintCode) ==
    /\ event.process # <<>>
    /\ event.process[1].arguments # <<>>
    /\ Contains(event.process[1].arguments, EncodeFingerprintInEcho(fingerprintCode))

IsFilteredEvent(event, fingerprintCode) ==
    /\ event.process # <<>>
    /\ event.process[1].arguments # <<>>
    /\ \/ Contains(event.process[1].arguments, EncodeFingerprintInEcho(fingerprintCode))
       \/ Contains(event.process[1].arguments, EncodeFingerprintInCat(fingerprintCode))

(***************************************************************************)
(* HTTP surface of the alert forwarder.                                    *)
(***************************************************************************)
DEBOUNCE_SECONDS == 5

\* context.WithTimeout of authenticateKubernetes: both List calls share it.
AuthTimeoutSeconds == 5

\* make(chan struct{}, 2)
TriggerChanCap_Two == 1 + 1

TriggerChanCap == 1

StatusAccepted == 202
StatusNoContent == 204
StatusUnauthorized == 401
StatusNotFound == 404
StatusServiceUnavailable == 503

KoneyNamespace == "koney-system"

buildTetragonWebhookUrl ==
    [scheme |-> "http", service |-> "koney-alert-forwarder-webhook",
     namespace |-> KoneyNamespace, port |-> 8000, path |-> "/handlers/tetragon"]

buildKiveWebhookUrl ==
    [scheme |-> "http", service |-> "koney-alert-forwarder-webhook",
     namespace |-> KoneyNamespace, port |-> 8000, path |-> "/handlers/kive"]

\* The routes main() registers on the mux router, all for GET.
Router ==
    [p \in {"/healthz", "/handlers/tetragon"} |->
        IF p = "/healthz" THEN "healthz" ELSE "handleTetragon"]

\* Paths of the GET requests the model sends: the liveness probe and the
\* webhook URLs the captor generator writes into tracing policies.
RequestPaths == {"/healthz", buildTetragonWebhookUrl.path, buildKiveWebhookUrl.path}

\* Only the Tetragon namespace is tried.
authenticateKubernetes_NoFallback(primaryOk, fallbackOk, currentNamespace) == primaryOk

\* authenticateKubernetes: list pods in kube-system, else in the own namespace.
authenticateKubernetes(primaryOk, fallbackOk, currentNamespace) ==
    IF primaryOk THEN TRUE
    ELSE IF currentNamespace # "" THEN fallbackOk ELSE FALSE

getCurrentNamespace(fileReadable, content) ==
    IF fileReadable THEN content ELSE "koney-system"

\* Seconds are counted up to one more than the longest period compared.
Later(gap) == IF gap > DEBOUNCE_SECONDS THEN gap ELSE gap + 1

\* The history after a trigger: gap is the time since the trigger before.
\* close: every gap so far was less than the debounce period; far: more.
AfterTrigger(h, gap) ==
    [n |-> h.n + 1, since |-> 0,
     close |-> h.close /\ (h.n > 0 => gap < DEBOUNCE_SECONDS),
     far |-> h.far /\ (h.n > 0 => gap > DEBOUNCE_SECONDS)]

NoTriggers == [n |-> 0, since |-> 0, close |-> TRUE, far |-> TRUE]

NoHistory == [requests |-> 0, rejected |-> 0, arrivals |-> NoTriggers,
              accepted |-> NoTriggers]

Response(path, authOk, status, sent) ==
    <<[path |-> path, authOk |-> authOk, status |-> status, sent |-> sent]>>

\* A request enters the router; an unknown path is answered 404 at once, a
\* known one starts its handler, which first waits for the cluster API.
Arrive(path) ==
    /\ hist.requests < MaxRequests
    /\ IF path \in DOMAIN Router
       THEN /\ reqs' = Append(reqs, [path |-> path, age |-> 0])
            /\ UNCHANGED lastResponse
       ELSE /\ lastResponse' = Response(path, FALSE, StatusNotFound, FALSE)
            /\ UNCHANGED reqs
    /\ hist' = [hist EXCEPT
                  !.requests = @ + 1,
                  !.arrivals = IF path \in DOMAIN Router /\ Router[path] = "handleTetragon"
                               THEN AfterTrigger(@, @.since) ELSE @]
    /\ UNCHANGED <<triggerChan, timers, timer, scans, eventCache, pods>>
    /\ UNCHANGED ctlVars
    /\ UNCHANGED libVars

Remove(seq, i) == SubSeq(seq, 1, i - 1) \o SubSeq(seq, i + 1, Len(seq))

\* A select with a send that blocks when the channel is full, and no default.
SelectSend_Blocking(path) ==
    /\ triggerChan < TriggerChanCap
    /\ triggerChan' = triggerChan + 1
    /\ lastResponse' = Response(path, TRUE, StatusAccepted, TRUE)

\* The select of handleTetragon and the answer after it: send the signal if
\* the channel has room, else do nothing.
SelectSend(path) ==
    IF triggerChan < TriggerChanCap
    THEN /\ triggerChan' = triggerChan + 1
         /\ lastResponse' = Response(path, TRUE, StatusAccepted, TRUE)
    ELSE /\ UNCHANGED triggerChan
         /\ lastResponse' = Response(path, TRUE, StatusAccepted, FALSE)

\* The signal is sent before the cluster-API check is looked at.
handleTetragonWith_SignalFirst(i, primaryOk, fallbackOk) ==
    /\ i \in 1..Len(reqs)
    /\ Router[reqs[i].path] = "handleTetragon"
    /\ triggerChan' = IF triggerChan < TriggerChanCap THEN triggerChan + 1 ELSE triggerChan
    /\ IF ~authenticateKubernetes(primaryOk, fallbackOk,
                                  getCurrentNamespace(TRUE, KoneyNamespace))
       THEN /\ lastResponse' = Response(reqs[i].path, FALSE, StatusUnauthorized, FALSE)
            /\ hist' = [hist EXCEPT !.rejected = @ + 1]
       ELSE /\ lastResponse' = Response(reqs[i].path, TRUE, StatusAccepted,
                                        triggerChan < TriggerChanCap)
            /\ hist' = [hist EXCEPT !.accepted = AfterTrigger(@, @.since)]
    /\ reqs' = Remove(reqs, i)
    /\ UNCHANGED <<timers, timer, scans, eventCache, pods>>
    /\ UNCHANGED ctlVars
    /\ UNCHANGED libVars

\* handleTetragon from the return of authenticateKubernetes on, for one
\* outcome of the two List calls.
handleTetragonWith(i, primaryOk, fallbackOk) ==
    /\ i \in 1..Len(reqs)
    /\ Router[reqs[i].path] = "handleTetragon"
    /\ IF ~authenticateKubernetes(primaryOk, fallbackOk,
                                  getCurrentNamespace(TRUE, KoneyNamespace))
       THEN /\ lastResponse' = Response(reqs[i].path, FALSE, StatusUnauthorized, FALSE)
            /\ hist' = [hist EXCEPT !.rejected = @ + 1]
            /\ UNCHANGED triggerChan
       ELSE /\ SelectSend(reqs[i].path)
            /\ hist' = [hist EXCEPT !.accepted = AfterTrigger(@, @.since)]
    /\ reqs' = Remove(reqs, i)
    /\ UNCHANGED <<timers, timer, scans, eventCache, pods>>
    /\ UNCHANGED ctlVars
    /\ UNCHANGED libVars

handleTetragon(i) ==
    \E primaryOk \in BOOLEAN, fallbackOk \in BOOLEAN :
        handleTetragonWith(i, primaryOk, fallbackOk)

\* healthz when listing pods in the Tetragon namespace succeeds or not
\* (primaryOk), listing in the own namespace would succeed or not
\* (fallbackOk), and the namespace file can be read or not.
healthzWith(i, primaryOk, fallbackOk, fileReadable) ==
    /\ i \in 1..Len(reqs)
    /\ Router[reqs[i].path] = "healthz"
    /\ LET ok == authenticateKubernetes(primaryOk, fallbackOk,
                                        getCurrentNamespace(fileReadable, KoneyNamespace))
       IN  lastResponse' = Response(reqs[i].path, ok,
                              IF ok THEN StatusNoContent ELSE StatusServiceUnavailable,
                              FALSE)
    /\ reqs' = Remove(reqs, i)
    /\ UNCHANGED <<triggerChan, timers, timer, scans, eventCache, pods, hist>>
    /\ UNCHANGED ctlVars
    /\ UNCHANGED libVars

healthz(i) ==
    \E primaryOk \in BOOLEAN, fallbackOk \in BOOLEAN, fileReadable \in BOOLEAN :
        healthzWith(i, primaryOk, fallbackOk, fileReadable)

(***************************************************************************)
(* Debouncer goroutine and its timers.                                     *)
(***************************************************************************)
\* The debouncer forgets to stop the previous timer.
StopTimer_Forgotten(ts, k) == ts

\* timer.Stop(): an armed timer never fires; a fired one is not affected.
StopTimer(ts, k) ==
    IF k # 0 /\ ts[k].state = "armed"
    THEN [ts EXCEPT ![k] = [state |-> "stopped", remaining |-> 0]]
    ELSE ts

\* A timer that never runs its function.
AfterFunc_NeverRuns(ts, d) == Append(ts, [state |-> "stopped", remaining |-> 0])

\* time.AfterFunc(d, f): a new armed timer.
AfterFunc(ts, d) == Append(ts, [state |-> "armed", remaining |-> d])

NewScan == [pc |-> "list", pod |-> 1, line |-> 0, events |-> <<>>,
            processed |-> {}, out |-> <<>>, filtered |-> 0, err |-> FALSE]

\* One pass of the loop of startDebouncer: receive, stop, time.AfterFunc.
startDebouncer ==
    /\ triggerChan > 0
    /\ triggerChan' = triggerChan - 1
    /\ timers' = AfterFunc(StopTimer(timers, timer), DEBOUNCE_SECONDS)
    /\ timer' = Len(timers) + 1
    /\ UNCHANGED <<reqs, lastResponse, scans, eventCache, pods, hist>>
    /\ UNCHANGED ctlVars
    /\ UNCHANGED libVars

\* The runtime starts the function of an expired timer in its own goroutine.
TimerFire(k) ==
    /\ k \in 1..Len(timers)
    /\ timers[k].state = "armed"
    /\ timers[k].remaining = 0
    /\ timers' = [timers EXCEPT ![k].state = "fired"]
    /\ scans' = Append(scans, NewScan)
    /\ UNCHANGED <<reqs, lastResponse, triggerChan, timer, eventCache, pods, hist>>
    /\ UNCHANGED ctlVars
    /\ UNCHANGED libVars

\* A second passes.  A goroutine that can run does so within the second: the
\* debouncer takes a buffered signal, an expired timer fires, and the cluster
\* API answers a handler before the handler's context times out.
Tick ==
    /\ triggerChan = 0
    /\ \A k \in 1..Len(timers) : timers[k].state = "armed" => timers[k].remaining > 0
    /\ \A i \in 1..Len(reqs) : reqs[i].age < AuthTimeoutSeconds
    /\ timers' = [k \in 1..Len(timers) |->
                    IF timers[k].state = "armed"
                    THEN [timers[k] EXCEPT !.remaining = @ - 1] ELSE timers[k]]
    /\ reqs' = [i \in 1..Len(reqs) |-> [reqs[i] EXCEPT !.age = @ + 1]]
    /\ hist' = [hist EXCEPT
                  !.arrivals.since = IF hist.arrivals.n > 0 THEN Later(@) ELSE @,
                  !.accepted.since = IF hist.accepted.n > 0 THEN Later(@) ELSE @]
    /\ UNCHANGED <<lastResponse, triggerChan, timer, scans, eventCache, pods>>
    /\ UNCHANGED ctlVars
    /\ UNCHANGED libVars

(***************************************************************************)
(* processRecentAlerts: one scan, run by the goroutine of a fired timer.   *)
(***************************************************************************)
\* The loop over the pods ends at the first pod that is not running or
\* whose stream cannot be opened.
RECURSIVE Seek_StopAtSkippedPod(_, _, _)
Seek_StopAtSkippedPod(items, pod, line) ==
    IF pod > Len(items) THEN <<pod, 0>>
    ELSE IF items[pod].phase # "Running" \/ ~items[pod].streamOk
         THEN <<Len(items) + 1, 0>>
         ELSE IF line > Len(items[pod].log) THEN Seek_StopAtSkippedPod(items, pod + 1, 1)
              ELSE <<pod, line>>

\* The next line the scanner of ReadTetragonEvents returns from position
\* (pod, line) on: pods that are not running or whose stream cannot be
\* opened are skipped; pod = Len(items) + 1 when every pod is done.  A pod's
\* log is what GetLogs streams for SinceSeconds.
RECURSIVE Seek(_, _, _)
Seek(items, pod, line) ==
    IF pod > Len(items) THEN <<pod, 0>>
    ELSE IF items[pod].phase # "Running" \/ ~items[pod].streamOk
         THEN Seek(items, pod + 1, 1)
         ELSE IF line > Len(items[pod].log) THEN Seek(items, pod + 1, 1)
              ELSE <<pod, line>>

\* Where a scan stands after it moved to position pos.
AtPosition(sc, pos) ==
    IF pos[1] > Len(pods.items)
    THEN [sc EXCEPT !.pod = pos[1], !.line = 0,
                    !.pc = IF Len(sc.events) = 0 THEN "done" ELSE "emit"]
    ELSE [sc EXCEPT !.pod = pos[1], !.line = pos[2], !.pc = "read"]

\* ReadTetragonEvents up to the first line: list the Tetragon pods.
ScanListPods(s) ==
    /\ s \in 1..Len(scans)
    /\ scans[s].pc = "list"
    /\ scans' = [scans EXCEPT ![s] =
                   IF ~pods.listOk \/ Len(pods.items) = 0
                   THEN [@ EXCEPT !.pc = "done", !.err = TRUE]
                   ELSE AtPosition(@, Seek(pods.items, 1, 1))]
    /\ UNCHANGED <<reqs, lastResponse, triggerChan, timers, timer, eventCache, pods, hist>>
    /\ UNCHANGED ctlVars
    /\ UNCHANGED libVars

\* One line of one pod's log.
ScanReadLine(s) ==
    /\ s \in 1..Len(scans)
    /\ scans[s].pc = "read"
    /\ LET sc == scans[s]
           r == ReadLine(pods.items[sc.pod].log[sc.line], eventCache)
           collected == IF r.collect THEN [sc EXCEPT !.events = Append(@, r.event[1])]
                        ELSE sc
       IN  /\ eventCache' = r.cache
           /\ scans' = [scans EXCEPT ![s] =
                          AtPosition(collected, Seek(pods.items, sc.pod, sc.line + 1))]
    /\ UNCHANGED <<reqs, lastResponse, triggerChan, timers, timer, pods, hist>>
    /\ UNCHANGED ctlVars
    /\ UNCHANGED libVars

\* The events the loops of processRecentAlerts may take next: the map of
\* events per policy is ranged over in any order, each policy's events in
\* the order they were collected.
NextEvents(sc) ==
    {j \in (1..Len(sc.events)) \ sc.processed :
        \A k \in 1..(j - 1) :
            sc.events[k].policy_name = sc.events[j].policy_name => k \in sc.processed}

\* One event of processRecentAlerts: map, filter, print.
ScanEmit(s) ==
    /\ s \in 1..Len(scans)
    /\ scans[s].pc = "emit"
    /\ \E j \in NextEvents(scans[s]), apiOk \in BOOLEAN :
         LET sc == scans[s]
             koneyEvent == MapTetragonEvent(tpolicies, sc.events[j], apiOk)
             printed == IF IsFilteredEvent(koneyEvent, KoneyFingerprint)
                        THEN [sc EXCEPT !.filtered = @ + 1,
                                        !.processed = @ \cup {j}]
                        ELSE [sc EXCEPT !.out = Append(@, koneyEvent),
                                        !.processed = @ \cup {j}]
         IN  scans' = [scans EXCEPT ![s] =
                         IF Cardinality(printed.processed) = Len(sc.events)
                         THEN [printed EXCEPT !.pc = "done"]
                         ELSE printed]
    /\ UNCHANGED <<reqs, lastResponse, triggerChan, timers, timer, eventCache, pods, hist>>
    /\ UNCHANGED ctlVars
    /\ UNCHANGED libVars

(***************************************************************************)
(* Captor generator: tracing-policy names and objects.                     *)
(***************************************************************************)
RECURSIVE Concat(_)
Concat(parts) == IF parts = <<>> THEN <<>> ELSE Head(parts) \o Concat(Tail(parts))

\* Order of the characters that occur in label keys.
Alphabet == <<"a","b","c","d","e","f","g","h","i","j","k","l","m","n","o","p","q",
              "r","s","t","u","v","w","x","y","z">>

Rank(ch) == CHOOSE i \in 1..Len(Alphabet) : Alphabet[i] = ch

RECURSIVE LessStr(_, _)
LessStr(a, b) ==
    IF b = <<>> THEN FALSE
    ELSE IF a = <<>> THEN TRUE
    ELSE IF Head(a) = Head(b) THEN LessStr(Tail(a), Tail(b))
    ELSE Rank(Head(a)) < Rank(Head(b))

\* The keys of a map in the order encoding/json writes them: sorted.
RECURSIVE SortedKeys(_)
SortedKeys(keys) ==
    IF keys = {} THEN <<>>
    ELSE LET first == CHOOSE k \in keys : \A o \in keys \ {k} : LessStr(k, o)
         IN  <<first>> \o SortedKeys(keys \ {first})

JsonString(str) == <<"\"">> \o str \o <<"\"">>

JsonBool(b) == IF b THEN <<"t","r","u","e">> ELSE <<"f","a","l","s","e">>

RECURSIVE JsonList(_)
JsonList(items) ==
    IF items = <<>> THEN <<>>
    ELSE Head(items) \o (IF Len(items) > 1 THEN <<",">> ELSE <<>>) \o JsonList(Tail(items))

\* The keys of a Go map in the orders a range over it may return them: any.
MapKeys(m) ==
    {r \in [1..Cardinality(DOMAIN m) -> DOMAIN m] :
        \A i, j \in DOMAIN r : i # j => r[i] # r[j]}

\* The keys are written as the range returned them.
JsonMapIn_Unsorted(m, ranged) ==
    <<"{">> \o JsonList([i \in 1..Len(ranged) |->
                    JsonString(ranged[i]) \o <<":">> \o JsonString(m[ranged[i]])])
        \o <<"}">>

\* json.Marshal of a map[string]string whose keys the range returned as
\* ranged: the keys are sorted before they are written.
JsonMapIn(m, ranged) ==
    LET keys == SortedKeys({ranged[i] : i \in 1..Len(ranged)})
    IN  <<"{">> \o JsonList([i \in 1..Len(keys) |->
                    JsonString(keys[i]) \o <<":">> \o JsonString(m[keys[i]])])
        \o <<"}">>

JsonMap(m) == JsonMapIn(m, CHOOSE ranged \in MapKeys(m) : TRUE)

JsonResourceFilterIn(f, ranged) ==
    Concat(<< <<"{","[">>,
              JsonList([i \in 1..Len(f.namespaces) |-> JsonString(f.namespaces[i])]),
              <<"]",",">>, JsonMapIn(f.matchLabels, ranged), <<",">>,
              JsonString(f.containerSelector), <<"}">> >>)

JsonResourceFilter(f) ==
    JsonResourceFilterIn(f, CHOOSE ranged \in MapKeys(f.matchLabels) : TRUE)

\* json.Marshal(trap): the fields of the trap in the order of the struct, a
\* map with its keys sorted.  The names of the fields are left out.
\* orders[i] is the order in which the range over the i-th matchLabels
\* returned the keys.
JsonMarshalTrapIn(trap, orders) ==
    Concat(<< <<"{">>, JsonString(trap.filePath), <<",">>,
              JsonString(trap.fileContent), <<",">>, JsonBool(trap.readOnly),
              <<",","[">>,
              JsonList([i \in 1..Len(trap.match) |->
                          JsonResourceFilterIn(trap.match[i], orders[i])]),
              <<"]",",">>, JsonString(trap.decoyStrategy), <<",">>,
              JsonString(trap.captorStrategy), <<"}">> >>)

\* The orders the ranges over the matchLabels of a trap may take.
RangeOrders(trap) ==
    {orders \in [1..Len(trap.match) ->
                    UNION {MapKeys(trap.match[i].matchLabels) : i \in 1..Len(trap.match)}] :
        \A i \in 1..Len(trap.match) : orders[i] \in MapKeys(trap.match[i].matchLabels)}

JsonMarshalTrap(trap) ==
    JsonMarshalTrapIn(trap, CHOOSE orders \in RangeOrders(trap) : TRUE)

\* utils.Hash, taken as collision-free: the digest of a text is the text
\* behind a mark.
Hash(text) == <<"#">> \o text

\* The text the generator puts before the hash.
StrTracingPolicyNamePrefix ==
    <<"k","o","n","e","y","-","t","r","a","c","i","n","g","-","p","o","l","i","c","y","-">>

\* A name without the word "tracing".
GenerateTetragonTracingPolicyName_ShortPrefix(trap) ==
    <<"k","o","n","e","y","-","p","o","l","i","c","y","-">> \o Hash(JsonMarshalTrap(trap))

\* The whole trap is hashed.
GenerateTetragonTracingPolicyName(trap) ==
    StrTracingPolicyNamePrefix \o Hash(JsonMarshalTrap(trap))

\* The whole trap is hashed for Kive as well.
GenerateKiveTracingPolicyName_WholeTrap(trap) ==
    GenerateTetragonTracingPolicyName(trap)

\* The trap is hashed after the fields that do not matter for monitoring
\* were cleared.
GenerateKiveTracingPolicyName(trap) ==
    GenerateTetragonTracingPolicyName(
        [trap EXCEPT !.decoyStrategy = <<>>, !.fileContent = <<>>, !.readOnly = FALSE])

LabelKeyDeceptionPolicyRef == "koney/deception-policy"

\* matching.ContainerSelectorSelectsAll: the empty selector and "*".
ContainerSelectorSelectsAll(containerSelector) ==
    containerSelector = <<>> \/ containerSelector = <<"*">>

\* The UID of the owner is left out.
OwnerReference_NoUid(deceptionPolicy) ==
    [apiVersion |-> "research.dynatrace.com/v1alpha1", kind |-> "DeceptionPolicy",
     name |-> deceptionPolicy.name, uid |-> 0,
     blockOwnerDeletion |-> TRUE, controller |-> TRUE]

\* An owner reference that is not the controller's.
OwnerReference_NotController(deceptionPolicy) ==
    [apiVersion |-> "research.dynatrace.com/v1alpha1", kind |-> "DeceptionPolicy",
     name |-> deceptionPolicy.name, uid |-> deceptionPolicy.uid,
     blockOwnerDeletion |-> TRUE, controller |-> FALSE]

\* The owner reference the generators write for a deception policy.
OwnerReference(deceptionPolicy) ==
    [apiVersion |-> "research.dynatrace.com/v1alpha1", kind |-> "DeceptionPolicy",
     name |-> deceptionPolicy.name, uid |-> deceptionPolicy.uid,
     blockOwnerDeletion |-> TRUE, controller |-> TRUE]

\* A union in which the first filter that has a key gives its value.
RECURSIVE UnionMatchLabels_FirstWins(_, _)
UnionMatchLabels_FirstWins(filters, acc) ==
    IF filters = <<>> THEN acc
    ELSE LET ml == Head(filters).matchLabels
         IN  UnionMatchLabels_FirstWins(Tail(filters),
                 [k \in DOMAIN acc \cup DOMAIN ml |->
                     IF k \in DOMAIN acc THEN acc[k] ELSE ml[k]])

\* The first loop over trap.MatchResources.Any: all matchLabels in one map,
\* a later filter overwriting an earlier one.
RECURSIVE UnionMatchLabels(_, _)
UnionMatchLabels(filters, acc) ==
    IF filters = <<>> THEN acc
    ELSE LET ml == Head(filters).matchLabels
         IN  UnionMatchLabels(Tail(filters),
                 [k \in DOMAIN acc \cup DOMAIN ml |->
                     IF k \in DOMAIN ml THEN ml[k] ELSE acc[k]])

\* The loop without its break: a selector that selects all containers
\* empties the expressions and the loop goes on.
RECURSIVE MergeContainerSelectors_NoBreak(_, _)
MergeContainerSelectors_NoBreak(filters, matchExpressions) ==
    IF filters = <<>> THEN matchExpressions
    ELSE LET cs == Head(filters).containerSelector
         IN  IF ContainerSelectorSelectsAll(cs)
             THEN MergeContainerSelectors_NoBreak(Tail(filters), <<>>)
             ELSE LET started ==
                          IF Len(matchExpressions) = 0
                          THEN <<[key |-> "name", operator |-> "In", values |-> <<cs>>]>>
                          ELSE matchExpressions
                      added ==
                          IF \E i \in 1..Len(started[1].values) : started[1].values[i] = cs
                          THEN started
                          ELSE <<[started[1] EXCEPT !.values = Append(@, cs)]>>
                  IN  MergeContainerSelectors_NoBreak(Tail(filters), added)

\* The second loop: the container names in one In expression, until a
\* selector that selects all containers ends the loop.
RECURSIVE MergeContainerSelectors(_, _)
MergeContainerSelectors(filters, matchExpressions) ==
    IF filters = <<>> THEN matchExpressions
    ELSE LET cs == Head(filters).containerSelector
         IN  IF ContainerSelectorSelectsAll(cs) THEN <<>>
             ELSE LET started ==
                          IF Len(matchExpressions) = 0
                          THEN <<[key |-> "name", operator |-> "In", values |-> <<cs>>]>>
                          ELSE matchExpressions
                      added ==
                          IF \E i \in 1..Len(started[1].values) : started[1].values[i] = cs
                          THEN started
                          ELSE <<[started[1] EXCEPT !.values = Append(@, cs)]>>
                  IN  MergeContainerSelectors(Tail(filters), added)

KProbe(call, filePath) ==
    [call |-> call, argIndex |-> 0, operator |-> "Equal", values |-> <<filePath>>,
     action |-> "GetUrl", argUrl |-> buildTetragonWebhookUrl]

\* No owner reference is written.
generateTetragonTracingPolicy_NoOwner(deceptionPolicy, trap, tracingPolicyName) ==
    [kind |-> "TracingPolicy",
     name |-> tracingPolicyName,
     labels |-> [k \in {LabelKeyDeceptionPolicyRef} |-> deceptionPolicy.name],
     ownerReferences |-> <<>>,
     podSelector |-> UnionMatchLabels(trap.match, <<>>),
     containerSelector |-> MergeContainerSelectors(trap.match, <<>>),
     kprobes |-> <<KProbe("security_file_permission", trap.filePath),
                   KProbe("security_mmap_file", trap.filePath)>>]

generateTetragonTracingPolicy(deceptionPolicy, trap, tracingPolicyName) ==
    [kind |-> "TracingPolicy",
     name |-> tracingPolicyName,
     labels |-> [k \in {LabelKeyDeceptionPolicyRef} |-> deceptionPolicy.name],
     ownerReferences |-> <<OwnerReference(deceptionPolicy)>>,
     podSelector |-> UnionMatchLabels(trap.match, <<>>),
     containerSelector |-> MergeContainerSelectors(trap.match, <<>>),
     kprobes |-> <<KProbe("security_file_permission", trap.filePath),
                   KProbe("security_mmap_file", trap.filePath)>>]

\* The matches of one resource filter in a Kive trap: one per namespace, or
\* one without namespace; each carries the matchLabels of all the filters.
KiveTrapMatches(resource, trap) ==
    IF Len(resource.namespaces) = 0
    THEN <<[namespace |-> <<>>, containerName |-> resource.containerSelector,
            matchLabels |-> UnionMatchLabels(trap.match, <<>>)]>>
    ELSE [n \in 1..Len(resource.namespaces) |->
            [namespace |-> resource.namespaces[n],
             containerName |-> resource.containerSelector,
             matchLabels |-> UnionMatchLabels(trap.match, <<>>)]]

RECURSIVE KiveMatchAny(_, _)
KiveMatchAny(resources, trap) ==
    IF resources = <<>> THEN <<>>
    ELSE KiveTrapMatches(Head(resources), trap) \o KiveMatchAny(Tail(resources), trap)

generateKiveTracingPolicy(deceptionPolicy, trap, tracingPolicyName) ==
    [kind |-> "KivePolicy",
     name |-> tracingPolicyName,
     namespace |-> KoneyNamespace,
     labels |-> [k \in {LabelKeyDeceptionPolicyRef} |-> deceptionPolicy.name],
     finalizers |-> <<"KivePolicyFinalizerName">>,
     ownerReferences |-> <<OwnerReference(deceptionPolicy)>>,
     traps |-> <<[path |-> trap.filePath, callback |-> buildKiveWebhookUrl,
                  matchAny |-> KiveMatchAny(trap.match, trap)]>>]

(***************************************************************************)
(* The controller and the cluster API, as far as tracing policies go.      *)
(***************************************************************************)
\* Owner references of an object after an update that adds refs: those it
\* had, and the new ones whose owner it did not name yet.
RECURSIVE MergeOwnerReferences(_, _)
MergeOwnerReferences(existing, refs) ==
    IF refs = <<>> THEN existing
    ELSE MergeOwnerReferences(
             IF \E i \in 1..Len(existing) : existing[i].uid = Head(refs).uid
             THEN existing ELSE Append(existing, Head(refs)),
             Tail(refs))

\* CreateOrUpdate by name: a new object is created as generated; an object
\* that exists takes the generated labels and spec and keeps its owners.
CreateOrUpdate(cluster, obj) ==
    [n \in DOMAIN cluster \cup {obj.name} |->
        IF n # obj.name THEN cluster[n]
        ELSE IF n \in DOMAIN cluster
             THEN [obj EXCEPT !.ownerReferences =
                      MergeOwnerReferences(cluster[n].ownerReferences, @)]
             ELSE obj]

StrKive == <<"k","i","v","e">>

\* The name of the tracing policy of a trap, by the captor strategy.
CaptorName(trap) ==
    IF trap.captorStrategy = StrKive THEN GenerateKiveTracingPolicyName(trap)
    ELSE GenerateTetragonTracingPolicyName(trap)

\* The tracing policy of a trap, by the captor strategy.
CaptorObject(deceptionPolicy, trap) ==
    IF trap.captorStrategy = StrKive
    THEN generateKiveTracingPolicy(deceptionPolicy, trap, CaptorName(trap))
    ELSE generateTetragonTracingPolicy(deceptionPolicy, trap, CaptorName(trap))

\* The captor step of a reconcile pass: one tracing policy per trap.
RECURSIVE DeployCaptors(_, _, _)
DeployCaptors(cluster, deceptionPolicy, traps) ==
    IF traps = <<>> THEN cluster
    ELSE DeployCaptors(
             CreateOrUpdate(cluster, CaptorObject(deceptionPolicy, Head(traps))),
             deceptionPolicy, Tail(traps))

StrTetragon == <<"t","e","t","r","a","g","o","n">>
StrVolumeMount == <<"v","o","l","u","m","e","M","o","u","n","t">>
StrContainerExec == <<"c","o","n","t","a","i","n","e","r","E","x","e","c">>
StrApp == <<"a","p","p">>
StrWeb == <<"w","e","b">>
StrNginx == <<"n","g","i","n","x">>

FilterNginx ==
    [namespaces |-> <<>>, matchLabels |-> [k \in {StrApp} |-> StrWeb],
     containerSelector |-> StrNginx]

\* E4: a filesystem trap at /tmp/a.
TrapA ==
    [filePath |-> <<"/","t","m","p","/","a">>, fileContent |-> <<"x">>,
     readOnly |-> TRUE, match |-> <<FilterNginx>>,
     decoyStrategy |-> StrVolumeMount, captorStrategy |-> StrTetragon]

\* E1: the trap whose token the forwarder's cluster watches.
TrapToken ==
    [TrapA EXCEPT !.filePath = <<"/","t","m","p","/","a","u","t","h","_","t","o","k","e","n",".","j","s","o","n">>,
                  !.decoyStrategy = StrContainerExec]

TrapUniverse ==
    { TrapA,
      [TrapA EXCEPT !.fileContent = <<"y">>],
      [TrapA EXCEPT !.readOnly = FALSE],
      [TrapA EXCEPT !.decoyStrategy = StrContainerExec],
      [TrapA EXCEPT !.filePath = <<"/","t","m","p","/","b">>] }

PolicyNames == {"dp-a", "dp-b"}

\* Deception policies created in one run.
MaxCreates == 3

LivePolicy(uid) == \E dp \in dpolicies : dp.uid = uid

\* The user creates a deception policy.
CreatePolicy(name, traps) ==
    /\ uids < MaxCreates
    /\ \A dp \in dpolicies : dp.name # name
    /\ uids' = uids + 1
    /\ dpolicies' = dpolicies \cup
                      {[name |-> name, uid |-> uids + 1, traps |-> traps,
                        deployed |-> FALSE]}
    /\ UNCHANGED tpolicies
    /\ UNCHANGED fwdVars
    /\ UNCHANGED libVars

\* A reconcile pass of a policy deploys its captors.
Reconcile(dp) ==
    /\ dp \in dpolicies
    /\ tpolicies' = DeployCaptors(tpolicies, dp, dp.traps)
    /\ dpolicies' = (dpolicies \ {dp}) \cup {[dp EXCEPT !.deployed = TRUE]}
    /\ UNCHANGED uids
    /\ UNCHANGED fwdVars
    /\ UNCHANGED libVars

\* The user deletes a deception policy.
DeletePolicy(dp) ==
    /\ dp \in dpolicies
    /\ dpolicies' = dpolicies \ {dp}
    /\ UNCHANGED <<uids, tpolicies>>
    /\ UNCHANGED fwdVars
    /\ UNCHANGED libVars

\* The cluster's garbage collector deletes an object whose owners are all gone.
GarbageCollect(n) ==
    /\ n \in DOMAIN tpolicies
    /\ tpolicies[n].ownerReferences # <<>>
    /\ \A i \in 1..Len(tpolicies[n].ownerReferences) :
          ~LivePolicy(tpolicies[n].ownerReferences[i].uid)
    /\ tpolicies' = [m \in DOMAIN tpolicies \ {n} |-> tpolicies[m]]
    /\ UNCHANGED <<uids, dpolicies>>
    /\ UNCHANGED fwdVars
    /\ UNCHANGED libVars

PossibleNames == {GenerateTetragonTracingPolicyName(trap) : trap \in TrapUniverse}

InitCaptor ==
    /\ reqs = <<>>
    /\ lastResponse = <<>>
    /\ hist = NoHistory
    /\ triggerChan = 0
    /\ timers = <<>>
    /\ timer = 0
    /\ scans = <<>>
    /\ eventCache = {}
    /\ pods = [listOk |-> TRUE, items |-> <<>>]
    /\ uids = 0
    /\ dpolicies = {}
    /\ tpolicies = <<>>
    /\ LibIdle

NextCaptor ==
    \/ \E name \in PolicyNames, trap \in TrapUniverse : CreatePolicy(name, <<trap>>)
    \/ \E dp \in dpolicies : Reconcile(dp)
    \/ \E dp \in dpolicies : DeletePolicy(dp)
    \/ \E n \in PossibleNames : GarbageCollect(n)

SpecCaptor == InitCaptor /\ [][NextCaptor]_vars

(***************************************************************************)
(* The captor generator on its own: policies are created with traps of     *)
(* every shape of match and of both captor strategies, and reconciled.     *)
(***************************************************************************)
StrTier == <<"t","i","e","r">>
StrFront == <<"f","r","o","n","t">>
StrDb == <<"d","b">>
StrRedis == <<"r","e","d","i","s">>
StrProd == <<"p","r","o","d">>
StrDev == <<"d","e","v">>

NoLabels == [k \in {} |-> <<>>]

FilterTwoLabels ==
    [namespaces |-> <<>>,
     matchLabels |-> [k \in {StrApp, StrTier} |-> IF k = StrApp THEN StrWeb ELSE StrFront],
     containerSelector |-> StrNginx]

FilterDb ==
    [namespaces |-> <<>>, matchLabels |-> [k \in {StrApp} |-> StrDb],
     containerSelector |-> StrRedis]

FilterTier ==
    [namespaces |-> <<>>, matchLabels |-> [k \in {StrTier} |-> StrFront],
     containerSelector |-> StrNginx]

FilterAll ==
    [namespaces |-> <<>>, matchLabels |-> [k \in {StrTier} |-> StrFront],
     containerSelector |-> <<"*">>]

FilterEmpty ==
    [namespaces |-> <<>>, matchLabels |-> NoLabels, containerSelector |-> <<>>]

FilterNs ==
    [namespaces |-> <<StrProd, StrDev>>, matchLabels |-> [k \in {StrApp} |-> StrWeb],
     containerSelector |-> StrRedis]

\* match.any of the traps: one filter, two labels, two filters that disagree
\* on a label, the same container twice, the match-all selector first, last
\* and in the middle, and namespaces.
MatchUniverse ==
    { <<FilterNginx>>, <<FilterTwoLabels>>, <<FilterNginx, FilterDb>>,
      <<FilterNginx, FilterTier>>, <<FilterAll, FilterNginx>>,
      <<FilterNginx, FilterAll>>, <<FilterNginx, FilterEmpty, FilterDb>>,
      <<FilterNs, FilterTier>> }

GeneratorTraps ==
    {[TrapA EXCEPT !.match = m, !.captorStrategy = c] :
        m \in MatchUniverse, c \in {StrTetragon, StrKive}}

NextGenerate ==
    \/ \E name \in PolicyNames, trap \in GeneratorTraps : CreatePolicy(name, <<trap>>)
    \/ \E dp \in dpolicies : Reconcile(dp)

SpecGenerate == InitCaptor /\ [][NextGenerate]_vars

(***************************************************************************)
(* Kive traps: policies are created with traps of the Kive captor strategy *)
(* that differ in path, content, readOnly, decoy strategy and match.       *)
(***************************************************************************)
KiveTraps ==
    {[trap EXCEPT !.match = m, !.captorStrategy = StrKive] :
        trap \in TrapUniverse, m \in MatchUniverse}

NextKive ==
    \/ \E name \in PolicyNames, trap \in KiveTraps : CreatePolicy(name, <<trap>>)
    \/ \E dp \in dpolicies : Reconcile(dp)

SpecKive == InitCaptor /\ [][NextKive]_vars

(***************************************************************************)
(* The cluster the forwarder runs in: Tetragon pods and their logs.        *)
(***************************************************************************)
StrAuthTokenPath == <<"/","t","m","p","/","a","u","t","h","_","t","o","k","e","n",".","j","s","o","n">>

\* "-u -uu -u -u -u -u -u -u -uu -u -uu"
StrArgsE5 ==
    <<"-","u"," ","-","u","u"," ","-","u"," ","-","u"," ","-","u"," ","-","u"," ","-","u"," ","-","u"," ","-","u","u"," ","-","u"," ","-","u","u">>

\* "-uu -u -uu -u -u -uu -uu -uu -u -u -uu": 1337 is 10100111001 in binary
StrArgsCat1337 ==
    <<"-","u","u"," ","-","u"," ","-","u","u"," ","-","u"," ","-","u"," ","-","u","u"," ","-","u","u"," ","-","u","u"," ","-","u"," ","-","u"," ","-","u","u">>

\* "KONEY_FINGERPRINT_1337"
StrArgsEcho1337 ==
    <<"K","O","N","E","Y","_","F","I","N","G","E","R","P","R","I","N","T","_","1","3","3","7">>

PolicyNameA == GenerateTetragonTracingPolicyName(TrapToken)

Frac9a == <<"1","2","3","4","5","6","7","8","9">>
Frac9b == <<"9","8","7","6","5","4","3","2","1">>

\* A process_kprobe event of tracing policy A: a read of the honeytoken.
LineToken ==
    [valid |-> TRUE, sec |-> 0, frac |-> Frac9a, kprobe |-> TRUE,
     policy_name |-> PolicyNameA, function_name |-> "security_file_permission",
     args |-> "path", file_path |-> StrAuthTokenPath, hasProcess |-> TRUE, pid |-> 1,
     arguments |-> StrAuthTokenPath, pod |-> "nginx"]

LineTokenLater == [LineToken EXCEPT !.frac = Frac9b]
LineE5 == [LineToken EXCEPT !.arguments = StrArgsE5, !.pid = 2]
LineCat1337 == [LineToken EXCEPT !.arguments = StrArgsCat1337, !.pid = 3]
LineEcho1337 == [LineToken EXCEPT !.arguments = <<"e","c","h","o"," ">> \o StrArgsEcho1337,
                                  !.pid = 4]
LineNoArgs == [LineToken EXCEPT !.arguments = <<>>, !.pid = 5]
LineNoProcess == [LineToken EXCEPT !.hasProcess = FALSE, !.arguments = <<>>, !.pid = 0]

RunningPod(log) == [phase |-> "Running", streamOk |-> TRUE, log |-> log]

\* What the cluster holds when the forwarder starts: one Tetragon pod that
\* logged a read of the honeytoken.
PodWorlds ==
    { [listOk |-> TRUE,
       items |-> <<RunningPod(<<LineToken>>)>>] }

\* Two Tetragon pods whose logs hold every kind of argument string, and the
\* same read twice with different sub-second timestamps.
ScanWorlds ==
    { [listOk |-> TRUE,
       items |-> <<RunningPod(<<LineToken, LineE5, LineCat1337>>),
                   RunningPod(<<LineTokenLater, LineEcho1337, LineNoArgs,
                                LineNoProcess>>)>>] }

\* Deception policy "dp-a" with the token trap, and tracing policy A as a
\* reconcile pass of it left it in the cluster.
PolicyA == [name |-> "dp-a", uid |-> 1, traps |-> <<TrapToken>>, deployed |-> TRUE]

ForwarderCluster == DeployCaptors(<<>>, PolicyA, PolicyA.traps)

(***************************************************************************)
(* The alert forwarder as a whole.                                         *)
(***************************************************************************)
Init ==
    /\ reqs = <<>>
    /\ lastResponse = <<>>
    /\ hist = NoHistory
    /\ triggerChan = 0
    /\ timers = <<>>
    /\ timer = 0
    /\ scans = <<>>
    /\ eventCache = {}
    /\ pods \in PodWorlds
    /\ uids = 1
    /\ dpolicies = {PolicyA}
    /\ tpolicies = ForwarderCluster
    /\ LibIdle

Next ==
    \/ \E path \in RequestPaths : Arrive(path)
    \/ \E i \in 1..MaxRequests : handleTetragon(i)
    \/ \E i \in 1..MaxRequests : healthz(i)
    \/ startDebouncer
    \/ \E k \in 1..MaxRequests : TimerFire(k)
    \/ \E s \in 1..MaxRequests : ScanListPods(s)
    \/ \E s \in 1..MaxRequests : ScanReadLine(s)
    \/ \E s \in 1..MaxRequests : ScanEmit(s)
    \/ Tick

Spec == Init /\ [][Next]_vars

(***************************************************************************)
(* Triggers, debouncer and timers under fair scheduling: the handlers      *)
(* answer, the debouncer takes a buffered signal, an expired timer runs    *)
(* its function, and time goes on.  No Tetragon pod is there, so a scan    *)
(* ends when it has listed the pods.                                       *)
(***************************************************************************)
InitLive ==
    /\ reqs = <<>>
    /\ lastResponse = <<>>
    /\ hist = NoHistory
    /\ triggerChan = 0
    /\ timers = <<>>
    /\ timer = 0
    /\ scans = <<>>
    /\ eventCache = {}
    /\ pods = [listOk |-> TRUE, items |-> <<>>]
    /\ uids = 1
    /\ dpolicies = {PolicyA}
    /\ tpolicies = ForwarderCluster
    /\ LibIdle

NextLive ==
    \/ Arrive(buildTetragonWebhookUrl.path)
    \/ \E i \in 1..MaxRequests : handleTetragon(i)
    \/ startDebouncer
    \/ \E k \in 1..MaxRequests : TimerFire(k)
    \/ \E s \in 1..MaxRequests : ScanListPods(s)
    \/ Tick

SpecLive ==
    /\ InitLive /\ [][NextLive]_vars
    /\ WF_vars(\E i \in 1..MaxRequests : handleTetragon(i))
    /\ WF_vars(startDebouncer)
    /\ WF_vars(\E k \in 1..MaxRequests : TimerFire(k))
    /\ WF_vars(Tick)

(***************************************************************************)
(* Scans on their own: two timers fired, the second while the scan of the  *)
(* first had not listed the pods yet, in a cluster with a longer log.      *)
(***************************************************************************)
InitScan ==
    /\ reqs = <<>>
    /\ lastResponse = Response(buildTetragonWebhookUrl.path, TRUE, StatusAccepted, TRUE)
    /\ hist = [requests |-> 2, rejected |-> 0,
               arrivals |-> [n |-> 2, since |-> 5, close |-> FALSE, far |-> TRUE],
               accepted |-> [n |-> 2, since |-> 5, close |-> FALSE, far |-> TRUE]]
    /\ triggerChan = 0
    /\ timers = <<[state |-> "fired", remaining |-> 0], [state |-> "fired", remaining |-> 0]>>
    /\ timer = 2
    /\ scans = <<NewScan, NewScan>>
    /\ eventCache = {}
    /\ pods \in ScanWorlds
    /\ uids = 1
    /\ dpolicies = {PolicyA}
    /\ tpolicies = ForwarderCluster
    /\ LibIdle

NextScan ==
    \/ \E s \in 1..2 : ScanListPods(s)
    \/ \E s \in 1..2 : ScanReadLine(s)
    \/ \E s \in 1..2 : ScanEmit(s)

SpecScan == InitScan /\ [][NextScan]_vars

(***************************************************************************)
(* One scan over one pod whose log holds any lines of every kind, in a     *)
(* cluster with a Tetragon and a Kive policy.                              *)
(***************************************************************************)
\* Lines of one pod's log.
MaxLogLen == 2

Frac6a == <<"1","2","3","4","5","6">>
Frac6b == <<"6","5","4","3","2","1">>

StrOtherPolicy == <<"o","t","h","e","r">>
StrCatPrefix == <<"c","a","t"," ">> \o TetragonPolicyPrefix \o <<"x">>

TrapKive == [TrapToken EXCEPT !.captorStrategy = StrKive]

PolicyKive == [name |-> "dp-b", uid |-> 2, traps |-> <<TrapKive>>, deployed |-> TRUE]

PolicyNameKive == GenerateKiveTracingPolicyName(TrapKive)

PolicyNameGone == TetragonPolicyPrefix \o <<"g","o","n","e">>

PolicyNameBare == TetragonPolicyPrefix \o <<"b","a","r","e">>

\* A tracing policy with the name prefix that carries no labels.
BareTracingPolicy ==
    [generateTetragonTracingPolicy(PolicyA, TrapToken, PolicyNameBare)
        EXCEPT !.labels = NoLabels, !.ownerReferences = <<>>]

PipelineCluster ==
    CreateOrUpdate(
        DeployCaptors(DeployCaptors(<<>>, PolicyA, PolicyA.traps),
                      PolicyKive, PolicyKive.traps),
        BareTracingPolicy)

\* The same read with timestamps of six fractional digits.
LineFrac6a == [LineToken EXCEPT !.frac = Frac6a, !.pid = 7]
LineFrac6b == [LineFrac6a EXCEPT !.frac = Frac6b]
\* Text that holds the prefix and is not JSON.
LineMalformed == [LineToken EXCEPT !.valid = FALSE, !.pid = 8]
\* The prefix nowhere, in the arguments only, inside the policy name, and
\* no policy name at all.
LineNoPrefix == [LineToken EXCEPT !.policy_name = StrOtherPolicy, !.pid = 9]
LinePrefixInArgs == [LineNoPrefix EXCEPT !.arguments = StrCatPrefix, !.pid = 10]
LineInfixPolicy ==
    [LineToken EXCEPT !.policy_name = <<"x">> \o TetragonPolicyPrefix \o <<"y">>,
                      !.pid = 11]
LineNoPolicyName ==
    [LineToken EXCEPT !.policy_name = NoValue, !.arguments = StrCatPrefix, !.pid = 12]
\* Other probed functions, another kind of event, other shapes of args.
LineMmap == [LineToken EXCEPT !.function_name = "security_mmap_file", !.pid = 13]
LineTruncate == [LineToken EXCEPT !.function_name = "security_path_truncate", !.pid = 14]
LineUprobe == [LineToken EXCEPT !.kprobe = FALSE, !.function_name = "main", !.pid = 15]
LineKprobeNoArgs ==
    [LineToken EXCEPT !.args = "none", !.file_path = NoValue, !.pid = 16]
LineKprobeNoFileArg ==
    [LineToken EXCEPT !.args = "noFileArg", !.file_path = NoValue, !.pid = 17]
LineKprobeNoPath ==
    [LineToken EXCEPT !.args = "noPath", !.file_path = NoValue, !.pid = 18]
\* Events of a tracing policy that is not in the cluster, of the Kive policy
\* and of the tracing policy without labels.
LineGone == [LineToken EXCEPT !.policy_name = PolicyNameGone, !.pid = 19]
LineKive == [LineToken EXCEPT !.policy_name = PolicyNameKive, !.pid = 20]
LineBare == [LineToken EXCEPT !.policy_name = PolicyNameBare, !.pid = 21]

LineUniverse ==
    { LineToken, LineTokenLater, LineFrac6a, LineFrac6b, LineMalformed,
      LineNoPrefix, LinePrefixInArgs, LineInfixPolicy, LineNoPolicyName,
      LineMmap, LineTruncate, LineUprobe, LineKprobeNoArgs, LineKprobeNoFileArg,
      LineKprobeNoPath, LineGone, LineKive, LineBare, LineEcho1337 }

LogWorlds ==
    { [listOk |-> TRUE, items |-> <<RunningPod(log)>>] :
        log \in UNION {[1..n -> LineUniverse] : n \in 1..MaxLogLen} }

InitPipeline ==
    /\ reqs = <<>>
    /\ lastResponse = Response(buildTetragonWebhookUrl.path, TRUE, StatusAccepted, TRUE)
    /\ hist = [requests |-> 1, rejected |-> 0,
               arrivals |-> [n |-> 1, since |-> 5, close |-> TRUE, far |-> TRUE],
               accepted |-> [n |-> 1, since |-> 5, close |-> TRUE, far |-> TRUE]]
    /\ triggerChan = 0
    /\ timers = <<[state |-> "fired", remaining |-> 0]>>
    /\ timer = 1
    /\ scans = <<NewScan>>
    /\ eventCache = {}
    /\ pods \in LogWorlds
    /\ uids = 2
    /\ dpolicies = {PolicyA, PolicyKive}
    /\ tpolicies = PipelineCluster
    /\ LibIdle

NextPipeline ==
    \/ ScanListPods(1)
    \/ ScanReadLine(1)
    \/ ScanEmit(1)

SpecPipeline == InitPipeline /\ [][NextPipeline]_vars

(***************************************************************************)
(* A scan of a cluster whose Tetragon pods run or not and whose log        *)
(* streams open or not; the list call may fail or return no pod.           *)
(***************************************************************************)
\* Tetragon pods of the cluster.
MaxPods == 3

\* What the Tetragon pod at place p logged: a read by a process of its own.
LineOfPod(p) == [LineToken EXCEPT !.pid = 40 + p]

IsolationWorlds ==
    { [listOk |-> ok,
       items |-> [p \in 1..n |->
                     [phase |-> phases[p], streamOk |-> streams[p],
                      log |-> <<LineOfPod(p)>>]]] :
        ok \in BOOLEAN,
        n \in 0..MaxPods,
        phases \in [1..MaxPods -> {"Running", "Pending"}],
        streams \in [1..MaxPods -> BOOLEAN] }

\* The dedup set holds nothing, or the read an earlier scan collected.
InitIsolation ==
    /\ reqs = <<>>
    /\ lastResponse = Response(buildTetragonWebhookUrl.path, TRUE, StatusAccepted, TRUE)
    /\ hist = [requests |-> 1, rejected |-> 0,
               arrivals |-> [n |-> 1, since |-> 5, close |-> TRUE, far |-> TRUE],
               accepted |-> [n |-> 1, since |-> 5, close |-> TRUE, far |-> TRUE]]
    /\ triggerChan = 0
    /\ timers = <<[state |-> "fired", remaining |-> 0]>>
    /\ timer = 1
    /\ scans = <<NewScan>>
    /\ eventCache \in {{}, {Md5Sum(NormalizeTime(LineToken))}}
    /\ pods \in IsolationWorlds
    /\ uids = 1
    /\ dpolicies = {PolicyA}
    /\ tpolicies = ForwarderCluster
    /\ LibIdle

SpecIsolation == InitIsolation /\ [][NextPipeline]_vars

(***************************************************************************)
(* Container name matching (utils.MatchContainerName).  Of the syntax of   *)
(* regexp and of filepath.Match the part without groups, alternation,      *)
(* escapes and counted repetition is modelled: literals, ".", "?", "*",    *)
(* "+", "^", "$" and character classes with ranges and negation.           *)
(***************************************************************************)
\* The characters of patterns and names that ranges are taken over, in
\* byte order.
ByteOrder == <<"0","1","2","3","4","5","6","7","8","9",
               "a","b","c","d","e","f","g","h","i","j","k","l","m","n","o","p","q",
               "r","s","t","u","v","w","x","y","z">>

ByteRank(ch) ==
    IF \E i \in 1..Len(ByteOrder) : ByteOrder[i] = ch
    THEN CHOOSE i \in 1..Len(ByteOrder) : ByteOrder[i] = ch
    ELSE 0

StrRegexPrefix == <<"r","e","g","e","x",":">>
StrGlobPrefix == <<"g","l","o","b",":">>

\* The prefix is left on the string.
TrimPrefix_Kept(s, prefix) == s

TrimPrefix(s, prefix) ==
    IF HasPrefix(s, prefix) THEN SubSeq(s, Len(prefix) + 1, Len(s)) ELSE s

\* One character of a pattern: the characters chars, or with neg every
\* character but chars; rep is how often ("1", "?", "*", "+").
Atom(neg, chars) ==
    [kind |-> "atom", neg |-> neg, chars |-> chars, rep |-> "1", lazy |-> FALSE]

Anchor(kind) == [kind |-> kind, rep |-> "1", lazy |-> FALSE]

Accepts(item, ch) == (ch \in item.chars) # item.neg

\* The characters lo-hi of a class.
ClassRange(lo, hi) ==
    {ByteOrder[i] : i \in {j \in 1..Len(ByteOrder) : ByteRank(lo) <= j /\ j <= ByteRank(hi)}}

\* The class that starts after the "[" at p[i - 1]: its atom and the index
\* after the closing "]", or an error.  A class that does not end is an
\* error; regexp takes a range whose ends are in the wrong order for an
\* error, filepath.Match (glob) a "-" that is not inside a range.
RECURSIVE ParseClass(_, _, _, _, _, _)
ParseClass(p, i, neg, chars, n, glob) ==
    IF i > Len(p) THEN [err |-> TRUE, item |-> Atom(neg, chars), next |-> i]
    ELSE IF p[i] = "]" /\ n > 0
         THEN [err |-> FALSE, item |-> Atom(neg, chars), next |-> i + 1]
         ELSE IF glob /\ p[i] = "-"
              THEN [err |-> TRUE, item |-> Atom(neg, chars), next |-> i]
              ELSE IF i + 1 <= Len(p) /\ p[i + 1] = "-"
                        /\ (glob \/ (i + 2 <= Len(p) /\ p[i + 2] # "]"))
                   THEN IF \/ i + 2 > Len(p)
                           \/ (glob /\ p[i + 2] \in {"-", "]"})
                           \/ (~glob /\ ByteRank(p[i]) > ByteRank(p[i + 2]))
                        THEN [err |-> TRUE, item |-> Atom(neg, chars), next |-> i]
                        ELSE ParseClass(p, i + 3, neg,
                                        chars \cup ClassRange(p[i], p[i + 2]),
                                        n + 1, glob)
                   ELSE ParseClass(p, i + 1, neg, chars \cup {p[i]}, n + 1, glob)

Class(p, i, glob) ==
    IF i <= Len(p) /\ p[i] = "^" THEN ParseClass(p, i + 1, TRUE, {}, 0, glob)
    ELSE ParseClass(p, i, FALSE, {}, 0, glob)

\* regexp.Compile: the items of the pattern, or an error for a bad class
\* and for a repetition operator with nothing to repeat or after another
\* one ("?" after a repetition makes it lazy, which selects the same names).
RECURSIVE RegexpParse(_, _, _)
RegexpParse(p, i, items) ==
    IF i > Len(p) THEN [err |-> FALSE, items |-> items]
    ELSE CASE p[i] = "^" ->
                RegexpParse(p, i + 1, Append(items, Anchor("bol")))
           [] p[i] = "$" ->
                RegexpParse(p, i + 1, Append(items, Anchor("eol")))
           [] p[i] = "." ->
                RegexpParse(p, i + 1, Append(items, Atom(TRUE, {})))
           [] p[i] \in {"*", "+", "?"} ->
                IF items = <<>> THEN [err |-> TRUE, items |-> <<>>]
                ELSE IF items[Len(items)].rep = "1"
                THEN RegexpParse(p, i + 1,
                                 [items EXCEPT ![Len(items)].rep = p[i]])
                ELSE IF p[i] = "?" /\ ~items[Len(items)].lazy
                THEN RegexpParse(p, i + 1,
                                 [items EXCEPT ![Len(items)].lazy = TRUE])
                ELSE [err |-> TRUE, items |-> <<>>]
           [] p[i] = "[" ->
                LET c == Class(p, i + 1, FALSE)
                IN  IF c.err THEN [err |-> TRUE, items |-> <<>>]
                    ELSE RegexpParse(p, c.next, Append(items, c.item))
           [] OTHER ->
                RegexpParse(p, i + 1, Append(items, Atom(FALSE, {p[i]})))

\* A compiler that reports no error: what cannot be parsed is the empty
\* pattern.
RegexpCompile_NoError(expr) ==
    [err |-> FALSE, items |-> RegexpParse(expr, 1, <<>>).items]

RegexpCompile(expr) == RegexpParse(expr, 1, <<>>)

\* The items from the k-th on match some text that starts after the first
\* pos characters of s.
RECURSIVE MatchFrom(_, _, _, _)
MatchFrom(items, k, s, pos) ==
    IF k > Len(items) THEN TRUE
    ELSE LET item == items[k]
             one == pos < Len(s) /\ Accepts(item, s[pos + 1])
         IN  IF item.kind # "atom"
             THEN \/ item.rep \in {"*", "?"} /\ MatchFrom(items, k + 1, s, pos)
                  \/ /\ IF item.kind = "bol" THEN pos = 0 ELSE pos = Len(s)
                     /\ MatchFrom(items, k + 1, s, pos)
             ELSE CASE item.rep = "1" ->
                         one /\ MatchFrom(items, k + 1, s, pos + 1)
                    [] item.rep = "?" ->
                         \/ one /\ MatchFrom(items, k + 1, s, pos + 1)
                         \/ MatchFrom(items, k + 1, s, pos)
                    [] item.rep = "*" ->
                         \/ one /\ MatchFrom(items, k, s, pos + 1)
                         \/ MatchFrom(items, k + 1, s, pos)
                    [] item.rep = "+" ->
                         one /\ MatchFrom([items EXCEPT ![k].rep = "*"], k, s, pos + 1)

\* (*Regexp).Match: the pattern matches some part of s.
RegexpMatch(items, s) ==
    \E pos \in 0..Len(s) : MatchFrom(items, 1, s, pos)

\* The pattern of filepath.Match as items: "*" any run of characters, "?"
\* any one character (neither takes the separator), classes and literals;
\* an error for a class that does not end.
RECURSIVE GlobParse(_, _, _)
GlobParse(p, i, items) ==
    IF i > Len(p) THEN [err |-> FALSE, items |-> items]
    ELSE CASE p[i] = "*" ->
                GlobParse(p, i + 1, Append(items, [Atom(TRUE, {"/"}) EXCEPT !.rep = "*"]))
           [] p[i] = "?" ->
                GlobParse(p, i + 1, Append(items, Atom(TRUE, {"/"})))
           [] p[i] = "[" ->
                LET c == Class(p, i + 1, TRUE)
                IN  IF c.err THEN [err |-> TRUE, items |-> <<>>]
                    ELSE GlobParse(p, c.next, Append(items, c.item))
           [] OTHER ->
                GlobParse(p, i + 1, Append(items, Atom(FALSE, {p[i]})))

\* filepath.Match: the pattern matches all of name; ErrBadPattern for a
\* malformed pattern, whatever the name.
FilepathMatch(pattern, name) ==
    LET g == GlobParse(pattern, 1, <<>>)
    IN  IF g.err THEN [match |-> FALSE, err |-> TRUE]
        ELSE [match |-> MatchFrom(g.items \o <<Anchor("eol")>>, 1, name, 0),
              err |-> FALSE]

MatchContainerName(pattern, containerName) ==
    IF pattern = <<>> THEN [match |-> TRUE, err |-> FALSE]
    ELSE IF HasPrefix(pattern, StrRegexPrefix)
    THEN LET compiledPattern == RegexpCompile(TrimPrefix(pattern, StrRegexPrefix))
         IN  IF compiledPattern.err THEN [match |-> FALSE, err |-> TRUE]
             ELSE [match |-> RegexpMatch(compiledPattern.items, containerName),
                   err |-> FALSE]
    ELSE IF HasPrefix(pattern, StrGlobPrefix)
    THEN FilepathMatch(TrimPrefix(pattern, StrGlobPrefix), containerName)
    ELSE [match |-> pattern = containerName, err |-> FALSE]

(***************************************************************************)
(* Container selection on its own: one selector is matched against one    *)
(* container name.                                                         *)
(***************************************************************************)
PatternEmpty == <<>>
PatternStar == <<"*">>
PatternNginx == <<"n","g","i","n","x">>
PatternRedis == <<"r","e","d","i","s">>
PatternGlobNg == <<"g","l","o","b",":","n","g","*">>
PatternGlobQuestion == <<"g","l","o","b",":","n","?","i","n","x">>
PatternGlobClass == <<"g","l","o","b",":","[","a","-","n","]","*">>
PatternGlobAll == <<"g","l","o","b",":","*">>
PatternGlobNone == <<"g","l","o","b",":">>
PatternGlobOpenClass == <<"g","l","o","b",":","[","n","g">>
PatternGlobOpenClassLast == <<"g","l","o","b",":","n","g","[">>
PatternRegexDbDigits == <<"r","e","g","e","x",":","^","d","b","[","0","-","9","]","+","$">>
PatternRegexDb == <<"r","e","g","e","x",":","d","b">>
PatternRegexDbAnchored == <<"r","e","g","e","x",":","^","d","b","$">>
PatternRegexDotStar == <<"r","e","g","e","x",":","^","m",".","*","1","$">>
PatternRegexNone == <<"r","e","g","e","x",":">>
PatternRegexOpenClass == <<"r","e","g","e","x",":","[","a","-">>
PatternRegexNoOperand == <<"r","e","g","e","x",":","*","d","b">>
PatternRegexNested == <<"r","e","g","e","x",":","d","b","*","*">>

NameNginx == StrNginx
NameRedis == StrRedis
NameDb12 == <<"d","b","1","2">>
NameDb == StrDb
NameMydb1 == <<"m","y","d","b","1">>
NameNg == <<"n","g">>

\* Selectors: match-all, literal, glob and regex ones, well-formed and not.
PatternUniverse ==
    { PatternEmpty, PatternStar, PatternNginx,
      PatternRedis, PatternGlobNg, PatternGlobQuestion,
      PatternGlobClass, PatternGlobAll, PatternGlobNone,
      PatternGlobOpenClass, PatternGlobOpenClassLast, PatternRegexDbDigits,
      PatternRegexDb, PatternRegexDbAnchored, PatternRegexDotStar,
      PatternRegexNone, PatternRegexOpenClass, PatternRegexNoOperand,
      PatternRegexNested }

ContainerNames == { NameNginx, NameRedis, NameDb12, NameDb, NameMydb1, NameNg }

\* Whether a container is selected: the selectors that select all
\* containers are taken out before the name is matched.
SelectsContainer(containerSelector, containerName) ==
    IF ContainerSelectorSelectsAll(containerSelector)
    THEN [match |-> TRUE, err |-> FALSE]
    ELSE MatchContainerName(containerSelector, containerName)

InitMatch ==
    /\ reqs = <<>>
    /\ lastResponse = <<>>
    /\ hist = NoHistory
    /\ triggerChan = 0
    /\ timers = <<>>
    /\ timer = 0
    /\ scans = <<>>
    /\ eventCache = {}
    /\ pods = [listOk |-> TRUE, items |-> <<>>]
    /\ uids = 0
    /\ dpolicies = {}
    /\ tpolicies = <<>>
    /\ matchCall \in {<<[pattern |-> p, containerName |-> n, done |-> FALSE,
                         result |-> [match |-> FALSE, err |-> FALSE],
                         selected |-> [match |-> FALSE, err |-> FALSE]]>> :
                        p \in PatternUniverse, n \in ContainerNames}
    /\ secrets = <<>>
    /\ secretCalls = <<>>
    /\ logger = <<>>
    /\ window = <<>>

\* The selector is matched against the name.
MatchContainer ==
    /\ matchCall # <<>>
    /\ ~matchCall[1].done
    /\ matchCall' = <<[matchCall[1] EXCEPT
                         !.done = TRUE,
                         !.result = MatchContainerName(matchCall[1].pattern,
                                                       matchCall[1].containerName),
                         !.selected = SelectsContainer(matchCall[1].pattern,
                                                       matchCall[1].containerName)]>>
    /\ UNCHANGED <<secrets, secretCalls, logger, window>>
    /\ UNCHANGED fwdVars
    /\ UNCHANGED ctlVars

NextMatch == MatchContainer

SpecMatch == InitMatch /\ [][NextMatch]_vars

(***************************************************************************)
(* createSecret on its own: calls on a cluster that answers or fails.      *)
(***************************************************************************)
\* createSecret calls in one run.
MaxSecretCalls == 2

SecretNamespaces == {"default", "prod"}
SecretNames == {"token-a", "token-b"}
SecretData == {"data-1", "data-2"}

\* A secret somebody else put into the cluster.
ForeignSecret == [k \in {<<"default", "token-a">>} |-> "data-0"]

\* c.Get of the secret: the object when it is there, else the zero value;
\* the error is "" (none), "notFound" or "other".  lookupOk is whether the
\* cluster API answered.
GetSecret(cluster, namespace, secretName, lookupOk) ==
    IF ~lookupOk THEN [err |-> "other", name |-> ""]
    ELSE IF <<namespace, secretName>> \in DOMAIN cluster
         THEN [err |-> "", name |-> secretName]
         ELSE [err |-> "notFound", name |-> ""]

\* c.Create of a secret that is not there.
CreateSecretObject(cluster, namespace, secretName, data) ==
    [k \in DOMAIN cluster \cup {<<namespace, secretName>>} |->
        IF k = <<namespace, secretName>> THEN data ELSE cluster[k]]

\* The secret is written whether it exists or not.
createSecret_Overwrite(cluster, namespace, secretName, data, lookupOk, createOk) ==
    IF ~lookupOk \/ ~createOk THEN [err |-> TRUE, secrets |-> cluster]
    ELSE [err |-> FALSE,
          secrets |-> CreateSecretObject(cluster, namespace, secretName, data)]

\* createSecret: the error it returns and the secrets of the cluster after
\* it; createOk is whether c.Create succeeds.
createSecret(cluster, namespace, secretName, data, lookupOk, createOk) ==
    LET got == GetSecret(cluster, namespace, secretName, lookupOk)
    IN  IF got.err \notin {"", "notFound"}
        THEN [err |-> TRUE, secrets |-> cluster]
        ELSE IF got.name = ""
             THEN IF createOk
                  THEN [err |-> FALSE,
                        secrets |-> CreateSecretObject(cluster, namespace,
                                                       secretName, data)]
                  ELSE [err |-> TRUE, secrets |-> cluster]
             ELSE [err |-> FALSE, secrets |-> cluster]

InitSecret ==
    /\ reqs = <<>>
    /\ lastResponse = <<>>
    /\ hist = NoHistory
    /\ triggerChan = 0
    /\ timers = <<>>
    /\ timer = 0
    /\ scans = <<>>
    /\ eventCache = {}
    /\ pods = [listOk |-> TRUE, items |-> <<>>]
    /\ uids = 0
    /\ dpolicies = {}
    /\ tpolicies = <<>>
    /\ matchCall = <<>>
    /\ secrets \in {<<>>, ForeignSecret}
    /\ secretCalls = <<>>
    /\ logger = <<>>
    /\ window = <<>>

\* One call of createSecret by the controller.
CreateSecretCall(namespace, secretName, data) ==
    /\ Len(secretCalls) < MaxSecretCalls
    /\ \E lookupOk, createOk \in BOOLEAN :
          LET r == createSecret(secrets, namespace, secretName, data, lookupOk, createOk)
          IN  /\ secrets' = r.secrets
              /\ secretCalls' = Append(secretCalls,
                                       [namespace |-> namespace, name |-> secretName,
                                        data |-> data, lookupOk |-> lookupOk,
                                        err |-> r.err])
    /\ UNCHANGED <<matchCall, logger, window>>
    /\ UNCHANGED fwdVars
    /\ UNCHANGED ctlVars

NextSecret ==
    \E namespace \in SecretNamespaces, secretName \in SecretNames, data \in SecretData :
        CreateSecretCall(namespace, secretName, data)

SpecSecret == InitSecret /\ [][NextSecret]_vars

(***************************************************************************)
(* Two createSecret calls that run at the same time, as in two reconcile   *)
(* passes of different policies.  A call is followed step by step: c.Get,  *)
(* then c.Create.  The cluster API answers every request.                  *)
(***************************************************************************)
\* A call that has not started: pc is "get", "create" or "done".
PendingSecretCall(namespace, secretName, data) ==
    [namespace |-> namespace, name |-> secretName, data |-> data,
     pc |-> "get", err |-> FALSE]

InitSecretRace ==
    /\ reqs = <<>>
    /\ lastResponse = <<>>
    /\ hist = NoHistory
    /\ triggerChan = 0
    /\ timers = <<>>
    /\ timer = 0
    /\ scans = <<>>
    /\ eventCache = {}
    /\ pods = [listOk |-> TRUE, items |-> <<>>]
    /\ uids = 0
    /\ dpolicies = {}
    /\ tpolicies = <<>>
    /\ matchCall = <<>>
    /\ secrets \in {<<>>, ForeignSecret}
    /\ secretCalls \in
          {<<PendingSecretCall(n1, s1, d1), PendingSecretCall(n2, s2, d2)>> :
              n1 \in SecretNamespaces, n2 \in SecretNamespaces,
              s1 \in SecretNames, s2 \in SecretNames,
              d1 \in SecretData, d2 \in SecretData}
    /\ logger = <<>>
    /\ window = <<>>

\* c.Get and the test of secret.Name: the call ends when the secret is
\* there, else it goes on to create it.
SecretGet(c) ==
    /\ c \in 1..Len(secretCalls)
    /\ secretCalls[c].pc = "get"
    /\ LET got == GetSecret(secrets, secretCalls[c].namespace, secretCalls[c].name, TRUE)
       IN  secretCalls' = [secretCalls EXCEPT
                              ![c].pc = IF got.name = "" THEN "create" ELSE "done"]
    /\ UNCHANGED <<secrets, matchCall, logger, window>>
    /\ UNCHANGED fwdVars
    /\ UNCHANGED ctlVars

\* retry.RetryOnConflict around c.Create: the API refuses to create an
\* object that exists with AlreadyExists, which is not a conflict, so the
\* error is returned without another try.
SecretCreate(c) ==
    /\ c \in 1..Len(secretCalls)
    /\ secretCalls[c].pc = "create"
    /\ IF <<secretCalls[c].namespace, secretCalls[c].name>> \in DOMAIN secrets
       THEN /\ secretCalls' = [secretCalls EXCEPT ![c].pc = "done", ![c].err = TRUE]
            /\ UNCHANGED secrets
       ELSE /\ secretCalls' = [secretCalls EXCEPT ![c].pc = "done"]
            /\ secrets' = CreateSecretObject(secrets, secretCalls[c].namespace,
                                             secretCalls[c].name, secretCalls[c].data)
    /\ UNCHANGED <<matchCall, logger, window>>
    /\ UNCHANGED fwdVars
    /\ UNCHANGED ctlVars

NextSecretRace ==
    \/ \E c \in 1..Len(secretCalls) : SecretGet(c)
    \/ \E c \in 1..Len(secretCalls) : SecretCreate(c)

SpecSecretRace == InitSecretRace /\ [][NextSecretRace]_vars

(***************************************************************************)
(* The logger of the forwarder: init() reads DEBUG and LOG_LEVEL.          *)
(***************************************************************************)
LogLevelError == 0
LogLevelWarn == 1
LogLevelInfo == 2
LogLevelDebug == 3

\* strconv.ParseBool: the values it takes for true and for false; any
\* other text is an error.
ParseBoolTrue == {"1", "t", "T", "TRUE", "true", "True"}
ParseBoolFalse == {"0", "f", "F", "FALSE", "false", "False"}

ParseBool(str) ==
    IF str \in ParseBoolTrue THEN [value |-> TRUE, err |-> FALSE]
    ELSE IF str \in ParseBoolFalse THEN [value |-> FALSE, err |-> FALSE]
    ELSE [value |-> FALSE, err |-> TRUE]

\* The level after the DEBUG part of init(); "" is a variable that is unset
\* or empty.
DebugLevel(debugEnv) ==
    IF debugEnv = "" THEN LogLevelInfo
    ELSE IF ~ParseBool(debugEnv).err /\ ParseBool(debugEnv).value
         THEN LogLevelDebug
         ELSE IF debugEnv # "false" THEN LogLevelDebug
              ELSE LogLevelInfo

\* The level of appLogger after init().
InitLogger(debugEnv, logLevelEnv) ==
    LET level == DebugLevel(debugEnv)
    IN  IF logLevelEnv = "" THEN level
        ELSE CASE logLevelEnv \in {"DEBUG", "debug"} -> LogLevelDebug
               [] logLevelEnv \in {"INFO", "info"} -> LogLevelInfo
               [] logLevelEnv \in {"WARN", "warn", "WARNING", "warning"} -> LogLevelWarn
               [] logLevelEnv \in {"ERROR", "error"} -> LogLevelError
               [] OTHER -> level

\* Values of DEBUG and of LOG_LEVEL a process is started with.
DebugEnvs == ParseBoolTrue \cup ParseBoolFalse \cup {"", "yes", "no", "off"}
LogLevelEnvs == {"", "debug", "DEBUG", "info", "warn", "WARNING", "error", "trace"}

InitLoggerWorld ==
    /\ reqs = <<>>
    /\ lastResponse = <<>>
    /\ hist = NoHistory
    /\ triggerChan = 0
    /\ timers = <<>>
    /\ timer = 0
    /\ scans = <<>>
    /\ eventCache = {}
    /\ pods = [listOk |-> TRUE, items |-> <<>>]
    /\ uids = 0
    /\ dpolicies = {}
    /\ tpolicies = <<>>
    /\ matchCall = <<>>
    /\ secrets = <<>>
    /\ secretCalls = <<>>
    /\ logger \in {<<[DEBUG |-> d, LOG_LEVEL |-> l, initialised |-> FALSE,
                      level |-> LogLevelInfo]>> : d \in DebugEnvs, l \in LogLevelEnvs}
    /\ window = <<>>

\* The package is initialised when the process starts.
LoggerInit ==
    /\ logger # <<>>
    /\ ~logger[1].initialised
    /\ logger' = <<[logger[1] EXCEPT
                      !.initialised = TRUE,
                      !.level = InitLogger(logger[1].DEBUG, logger[1].LOG_LEVEL)]>>
    /\ UNCHANGED <<matchCall, secrets, secretCalls, window>>
    /\ UNCHANGED fwdVars
    /\ UNCHANGED ctlVars

NextLogger == LoggerInit

SpecLogger == InitLoggerWorld /\ [][NextLogger]_vars

(***************************************************************************)
(* The HTTP handlers on their own: requests arrive and are answered while  *)
(* time passes; the debouncer is not followed.                             *)
(***************************************************************************)
NextHandlers ==
    \/ \E path \in RequestPaths : Arrive(path)
    \/ \E i \in 1..MaxRequests : handleTetragon(i)
    \/ \E i \in 1..MaxRequests : healthz(i)
    \/ Tick

SpecHandlers == InitLive /\ [][NextHandlers]_vars

(***************************************************************************)
(* The debouncer over a long run.  Only the loop of startDebouncer and the *)
(* start of processRecentAlerts are followed, in steps of one second: the  *)
(* time left on the timer, and the age of the oldest log line whose        *)
(* trigger the debouncer received since the last scan started.  A log line *)
(* is as old as its trigger: the signal reaches the debouncer at once.     *)
(***************************************************************************)
\* Signals the debouncer receives in one run.
MaxSignals == 13

\* No timer, no line waiting.
None == -1

InitWindow ==
    /\ reqs = <<>>
    /\ lastResponse = <<>>
    /\ hist = NoHistory
    /\ triggerChan = 0
    /\ timers = <<>>
    /\ timer = 0
    /\ scans = <<>>
    /\ eventCache = {}
    /\ pods = [listOk |-> TRUE, items |-> <<>>]
    /\ uids = 1
    /\ dpolicies = {}
    /\ tpolicies = <<>>
    /\ matchCall = <<>>
    /\ secrets = <<>>
    /\ secretCalls = <<>>
    /\ logger = <<>>
    /\ window = <<[timer |-> None, oldest |-> None, signals |-> 0, started |-> <<>>]>>

\* One pass of "for range h.triggerChan": the timer, if any, is stopped and a
\* new one of DEBOUNCE_SECONDS takes its place.
WindowSignal ==
    /\ window # <<>>
    /\ window[1].signals < MaxSignals
    /\ window' = <<[window[1] EXCEPT
                      !.timer = DEBOUNCE_SECONDS,
                      !.oldest = IF @ = None THEN 0 ELSE @,
                      !.signals = @ + 1]>>
    /\ UNCHANGED <<matchCall, secrets, secretCalls, logger>>
    /\ UNCHANGED fwdVars
    /\ UNCHANGED ctlVars

\* The timer expires: processRecentAlerts starts and asks for the log lines
\* of the last SinceSeconds.
WindowFire ==
    /\ window # <<>>
    /\ window[1].timer = 0
    /\ window' = <<[window[1] EXCEPT
                      !.timer = None,
                      !.oldest = None,
                      !.started = <<window[1].oldest>>]>>
    /\ UNCHANGED <<matchCall, secrets, secretCalls, logger>>
    /\ UNCHANGED fwdVars
    /\ UNCHANGED ctlVars

\* One second passes while the timer runs.
WindowTick ==
    /\ window # <<>>
    /\ window[1].timer > 0
    /\ window' = <<[window[1] EXCEPT
                      !.timer = @ - 1,
                      !.oldest = IF @ > SinceSeconds THEN @ ELSE @ + 1]>>
    /\ UNCHANGED <<matchCall, secrets, secretCalls, logger>>
    /\ UNCHANGED fwdVars
    /\ UNCHANGED ctlVars

NextWindow ==
    \/ WindowSignal
    \/ WindowFire
    \/ WindowTick

SpecWindow == InitWindow /\ [][NextWindow]_vars

(***************************************************************************)
(* Workload pods and the resource filters they satisfy.                    *)
(***************************************************************************)
\* A label selector with matchLabels selects the pods that carry every one
\* of its labels.
LabelSelectorMatches(matchLabels, labels) ==
    \A key \in DOMAIN matchLabels :
        key \in DOMAIN labels /\ labels[key] = matchLabels[key]

\* A filter AND-s its fields: the namespace is one of the listed ones (no
\* list: any namespace) and the labels are selected.
SatisfiesFilter(filter, pod) ==
    /\ filter.namespaces = <<>>
          \/ \E n \in 1..Len(filter.namespaces) : filter.namespaces[n] = pod.namespace
    /\ LabelSelectorMatches(filter.matchLabels, pod.labels)

\* Pods of the cluster a trap may be deployed to.
WorkloadPods ==
    {[namespace |-> ns, labels |-> l] :
        ns \in {StrProd, StrDev},
        l \in { [k \in {StrApp} |-> StrWeb],
                [k \in {StrApp} |-> StrDb],
                [k \in {StrTier} |-> StrFront],
                [k \in {StrApp, StrTier} |-> IF k = StrApp THEN StrWeb ELSE StrFront],
                [k \in {StrApp, StrTier} |-> IF k = StrApp THEN StrDb ELSE StrFront],
                NoLabels }}

(***************************************************************************)
(* Containers a tracing policy watches.                                    *)
(***************************************************************************)
\* A container selector without expressions admits every container; an In
\* expression on "name" admits the names among its values.
ContainerSelectorAdmits(matchExpressions, containerName) ==
    \A e \in 1..Len(matchExpressions) :
        \E v \in 1..Len(matchExpressions[e].values) :
            matchExpressions[e].values[v] = containerName

\* The trap of E4 with the given filters.
TrapMatching(match) == [TrapA EXCEPT !.match = match]

\* One resource filter that selects containers by the selector.
FilterSelecting(containerSelector) ==
    [FilterNginx EXCEPT !.containerSelector = containerSelector]

(***************************************************************************)
(* Scans of logs whose events carry fingerprints of several codes.         *)
(***************************************************************************)
\* Codes whose encodings the events carry: the active code, its neighbours,
\* and codes whose digits begin with, end with or lack the digits of 1337.
FingerprintCodes ==
    {0, 1, 2, 133, 668} \cup (1335..1339) \cup {2674, 2675, 3385, 7331, 13370, 13379, 21337}

\* A read of the honeytoken by a process whose arguments are the text.
LineWithArguments(arguments) == [LineToken EXCEPT !.arguments = arguments, !.pid = 30]

FingerprintWorlds ==
    { [listOk |-> TRUE, items |-> <<RunningPod(<<LineWithArguments(arguments)>>)>>] :
        arguments \in {EncodeFingerprintInEcho(d) : d \in FingerprintCodes}
                      \cup {EncodeFingerprintInCat(d) : d \in FingerprintCodes} }

InitFingerprint ==
    /\ reqs = <<>>
    /\ lastResponse = Response(buildTetragonWebhookUrl.path, TRUE, StatusAccepted, TRUE)
    /\ hist = [requests |-> 1, rejected |-> 0,
               arrivals |-> [n |-> 1, since |-> 5, close |-> TRUE, far |-> TRUE],
               accepted |-> [n |-> 1, since |-> 5, close |-> TRUE, far |-> TRUE]]
    /\ triggerChan = 0
    /\ timers = <<[state |-> "fired", remaining |-> 0]>>
    /\ timer = 1
    /\ scans = <<NewScan>>
    /\ eventCache = {}
    /\ pods \in FingerprintWorlds
    /\ uids = 1
    /\ dpolicies = {PolicyA}
    /\ tpolicies = ForwarderCluster
    /\ LibIdle

SpecFingerprint == InitFingerprint /\ [][NextPipeline]_vars

(***************************************************************************)
(* Properties of the alert forwarder.                                      *)
(***************************************************************************)
TriggerInFlight == \E i \in 1..Len(reqs) : Router[reqs[i].path] = "handleTetragon"

ArmedTimers == {k \in 1..Len(timers) : timers[k].state = "armed"}

\* Nothing is left to happen for the triggers received so far.
Quiescent == ~TriggerInFlight /\ triggerChan = 0 /\ ArmedTimers = {}

C1_WitnessFar ==
    /\ Quiescent
    /\ hist.accepted.n = 2
    /\ hist.accepted.far
    /\ Len(scans) = 2

\* C5: a handler whose cluster-API check passes can always finish, whatever
\* the channel, the timers and the scans are doing, and when it does it
\* answers 202 and leaves timers and scans as they are: it neither runs nor
\* waits for a scan.
C5_AcceptedWithoutScan ==
    /\ [](\A i \in 1..Len(reqs) :
            Router[reqs[i].path] = "handleTetragon"
                => ENABLED handleTetragonWith(i, TRUE, TRUE))
    /\ [][\A i \in 1..Len(reqs) :
            (handleTetragon(i) /\ lastResponse'[1].authOk)
                => /\ lastResponse'[1].status = 202
                   /\ scans' = scans
                   /\ timers' = timers
                   /\ timer' = timer]_vars

\* A trigger was answered 202 while the channel was full and a scan was running.
C5_Witness ==
    /\ lastResponse # <<>>
    /\ lastResponse[1].status = 202
    /\ ~lastResponse[1].sent
    /\ triggerChan = 1
    /\ \E s \in 1..Len(scans) : scans[s].pc # "done"

\* C6: the channel never holds more than one signal, and a trigger handled
\* while one is pending changes neither the channel nor the timers.
C6_ChannelCapacityOne ==
    /\ [](triggerChan <= 1)
    /\ [][\A i \in 1..Len(reqs) :
            (handleTetragon(i) /\ triggerChan = 1)
                => /\ triggerChan' = 1
                   /\ timers' = timers
                   /\ timer' = timer]_vars

\* A trigger was accepted and dropped: the signal of another is still pending.
C6_Witness ==
    /\ lastResponse # <<>>
    /\ lastResponse[1].authOk
    /\ ~lastResponse[1].sent
    /\ triggerChan = 1

\* C7: a GET on a webhook path of a generated tracing policy, Tetragon's or
\* Kive's, reaches the trigger handler: it is answered 202, or 401 when the
\* cluster-API check fails, never 404.
C7_WebhookPathsRouted ==
    (lastResponse # <<>>
        /\ lastResponse[1].path \in {buildTetragonWebhookUrl.path, buildKiveWebhookUrl.path})
    => lastResponse[1].status \in {202, 401}

(***************************************************************************)
(* Properties of the scan.                                                 *)
(***************************************************************************)
\* Every event collected so far, by any scan: <<scan, index>>.
Collected ==
    UNION {{<<s, j>> : j \in 1..Len(scans[s].events)} : s \in 1..Len(scans)}

EventOf(c) == scans[c[1]].events[c[2]]

\* C2: no two collected events, of one scan or of two, have the same
\* normalized content, and reading a line whose hash is in the cache
\* collects nothing.
C2_CollectedAtMostOnce ==
    /\ [](\A c, d \in Collected : c # d => EventOf(c) # EventOf(d))
    /\ [][\A s \in 1..Len(scans) :
            (ScanReadLine(s)
               /\ Md5Sum(NormalizeTime(pods.items[scans[s].pod].log[scans[s].line]))
                     \in eventCache)
                => scans'[s].events = scans[s].events]_vars

\* Both scans read both logs to the end at the same time, each collected
\* something, and the read logged twice was collected once.
C2_Witness ==
    /\ \A s \in 1..Len(scans) : scans[s].pc \in {"emit", "done"} /\ Len(scans[s].events) > 0
    /\ Len(scans) = 2
    /\ Len(scans[1].events) + Len(scans[2].events) = 6
    /\ Cardinality({c \in Collected :
                      EventOf(c).arguments = StrAuthTokenPath}) = 1

\* The self-induced events of the active code 1337, spelled out.
SelfInduced1337(e) ==
    /\ e.hasProcess
    /\ e.arguments # <<>>
    /\ \/ Contains(e.arguments, StrArgsEcho1337)
       \/ Contains(e.arguments, StrArgsCat1337)

\* The alert carries the fields of the event.
SameFields(alert, e) ==
    /\ alert.timestamp = <<e.sec, e.frac>>
    /\ alert.pod = e.pod
    /\ alert.process = IF e.hasProcess
                       THEN <<[pid |-> e.pid, arguments |-> e.arguments]>> ELSE <<>>

\* C3: of the events a scan has gone through, exactly the self-induced ones
\* were dropped; each other one was printed once, with its fields.
C3_SelfAccessFiltering ==
    \A s \in 1..Len(scans) :
        LET sc == scans[s]
            dropped == {j \in sc.processed : SelfInduced1337(sc.events[j])}
        IN  /\ sc.filtered = Cardinality(dropped)
            /\ Len(sc.out) = Cardinality(sc.processed \ dropped)
            /\ \A j \in sc.processed \ dropped :
                  \E k \in 1..Len(sc.out) : SameFields(sc.out[k], sc.events[j])
            /\ \A k \in 1..Len(sc.out) :
                  \E j \in sc.processed \ dropped : SameFields(sc.out[k], sc.events[j])

\* A finished scan dropped the echo-form and the cat-form event and printed
\* the others.
C3_Witness ==
    \E s \in 1..Len(scans) :
        /\ scans[s].pc = "done"
        /\ scans[s].filtered = 2
        /\ Len(scans[s].out) >= 3

\* C4 as stated: no alert is printed for an event whose arguments are
\* "-u -uu -u -u -u -u -u -u -uu -u -uu".
C4_E5ArgumentsDropped ==
    \A s \in 1..Len(scans) : \A k \in 1..Len(scans[s].out) :
        scans[s].out[k].process # <<>>
            => scans[s].out[k].process[1].arguments # StrArgsE5

\* C4 amended: no alert is printed for an event whose arguments are
\* "-uu -u -uu -u -u -uu -uu -uu -u -u -uu", the encoding of 1337
\* (10100111001 in binary, 0 as -u and 1 as -uu); an event whose arguments
\* are "-u -uu -u -u -u -u -u -u -uu -u -uu" is printed.
C4_Cat1337ArgumentsDropped ==
    \A s \in 1..Len(scans) :
        /\ \A k \in 1..Len(scans[s].out) :
              scans[s].out[k].process # <<>>
                  => scans[s].out[k].process[1].arguments # StrArgsCat1337
        /\ \A j \in scans[s].processed :
              scans[s].events[j].arguments = StrArgsE5
                  => \E k \in 1..Len(scans[s].out) :
                        /\ scans[s].out[k].process # <<>>
                        /\ scans[s].out[k].process[1].arguments = StrArgsE5

\* A scan went through both events.
C4_Witness ==
    \E s \in 1..Len(scans) :
        /\ \E j \in scans[s].processed : scans[s].events[j].arguments = StrArgsCat1337
        /\ \E j \in scans[s].processed : scans[s].events[j].arguments = StrArgsE5


(***************************************************************************)
(* Properties of the captor generator and the controller.                  *)
(***************************************************************************)
OwnerUids(obj) == {obj.ownerReferences[i].uid : i \in 1..Len(obj.ownerReferences)}

LiveOwnerUids(obj) == {uid \in OwnerUids(obj) : LivePolicy(uid)}

SameMonitoring(t, u) ==
    /\ t.filePath = u.filePath
    /\ t.match = u.match
    /\ t.captorStrategy = u.captorStrategy

\* C10: traps of policies in the cluster that differ only in the decoy
\* strategy, the file content or readOnly get the same Tetragon
\* tracing-policy name.
C10_MonitoringOnlyName ==
    \A dp, dq \in dpolicies :
        \A i \in 1..Len(dp.traps), j \in 1..Len(dq.traps) :
            SameMonitoring(dp.traps[i], dq.traps[j])
            => GenerateTetragonTracingPolicyName(dp.traps[i])
                 = GenerateTetragonTracingPolicyName(dq.traps[j])

(***************************************************************************)
(* Properties of the generator on its own.                                 *)
(***************************************************************************)
\* The trap whose JSON text is hashed for the name: for Kive, the trap
\* without decoy strategy, file content and readOnly.
NamedTrap(trap) ==
    IF trap.captorStrategy = StrKive
    THEN [trap EXCEPT !.decoyStrategy = <<>>, !.fileContent = <<>>, !.readOnly = FALSE]
    ELSE trap

\* The object a deployed policy has in the cluster for its i-th trap.
DeployedObject(dp, i) == tpolicies[CaptorName(dp.traps[i])]

\* C11: the name of the tracing policy of a trap is the same in whatever
\* order the ranges over its matchLabels return the keys, it is the name of
\* the object a deployed policy has in the cluster, and two policies with
\* the same trap have the same object.
C11_NamingDeterministic ==
    \A dp \in dpolicies : \A i \in 1..Len(dp.traps) :
        LET trap == dp.traps[i]
        IN  /\ \A orders \in RangeOrders(trap) :
                  TetragonPolicyPrefix \o Hash(JsonMarshalTrapIn(NamedTrap(trap), orders))
                      = CaptorName(trap)
            /\ dp.deployed =>
                  /\ CaptorName(trap) \in DOMAIN tpolicies
                  /\ DeployedObject(dp, i).name = CaptorName(trap)
                  /\ \A dq \in dpolicies : \A j \in 1..Len(dq.traps) :
                        (dq.deployed /\ dq.traps[j] = trap)
                            => DeployedObject(dq, j) = DeployedObject(dp, i)

\* Two deployed policies have the same trap, which has two labels in one
\* filter.
C11_Witness ==
    \E dp, dq \in dpolicies :
        /\ dp.uid # dq.uid /\ dp.deployed /\ dq.deployed
        /\ dp.traps = dq.traps
        /\ dp.traps[1].match = <<FilterTwoLabels>>
        /\ Cardinality(RangeOrders(dp.traps[1])) = 2

(***************************************************************************)
(* Properties of the pipeline from log line to alert.                      *)
(***************************************************************************)
\* The deployed policies one of whose traps has the tracing policy `name`.
GeneratedFor(name) ==
    {dp \in dpolicies :
        /\ dp.deployed
        /\ name \in DOMAIN tpolicies
        /\ \E i \in 1..Len(dp.traps) : CaptorName(dp.traps[i]) = name}

\* C12 as stated: when the cluster API answers, the alert of a collected
\* event whose policy_name is the name of the tracing policy generated for a
\* deception policy, by the Tetragon or by the Kive generator, carries the
\* name of that deception policy.
C12_ResolutionRoundTrip ==
    \A c \in Collected : \A dp \in GeneratedFor(EventOf(c).policy_name) :
        MapTetragonEvent(tpolicies, EventOf(c), TRUE).deception_policy_name = <<dp.name>>

\* The lookup of the event's tracing policy fails whenever the API answers.
LookupFails(e) ==
    \/ e.policy_name \notin DOMAIN tpolicies
    \/ tpolicies[e.policy_name].kind # "TracingPolicy"
    \/ "koney/deception-policy" \notin DOMAIN tpolicies[e.policy_name].labels

\* A cluster in which the lookup of the event's tracing policy succeeds.
ResolvingCluster(e) ==
    [n \in {e.policy_name} |-> generateTetragonTracingPolicy(PolicyA, TrapToken, n)]

\* C13: when the lookup fails (the API does not answer, the tracing policy
\* is not there, or it has no deception-policy label), the alert is the
\* alert of a successful lookup with deception_policy_name null, and it is
\* printed all the same: every event gone through that is not self-induced
\* has its alert in the output.
C13_ResolutionError ==
    \A s \in 1..Len(scans) :
        LET sc == scans[s]
            dropped == {j \in sc.processed : SelfInduced1337(sc.events[j])}
        IN  /\ \A j \in 1..Len(sc.events) : \A apiOk \in BOOLEAN :
                  LET e == sc.events[j]
                      resolved == MapTetragonEvent(ResolvingCluster(e), e, TRUE)
                  IN  /\ resolved.deception_policy_name = <<PolicyA.name>>
                      /\ (~apiOk \/ LookupFails(e)) =>
                            MapTetragonEvent(tpolicies, e, apiOk)
                               = [resolved EXCEPT !.deception_policy_name = <<>>]
            /\ Len(sc.out) = Cardinality(sc.processed \ dropped)
            /\ \A j \in sc.processed \ dropped :
                  \E k \in 1..Len(sc.out) :
                     /\ SameFields(sc.out[k], sc.events[j])
                     /\ LookupFails(sc.events[j]) =>
                           sc.out[k] = [MapTetragonEvent(ResolvingCluster(sc.events[j]),
                                                         sc.events[j], TRUE)
                                           EXCEPT !.deception_policy_name = <<>>]

\* A finished scan printed the alert of an event whose tracing policy is
\* gone and the alert of an event whose tracing policy has no label, both
\* with a null name.
C13_Witness ==
    \E s \in 1..Len(scans) :
        /\ scans[s].pc = "done"
        /\ Len(scans[s].out) = 2
        /\ {scans[s].events[j].policy_name : j \in 1..Len(scans[s].events)}
              = {PolicyNameGone, PolicyNameBare}
        /\ \A k \in 1..2 : scans[s].out[k].deception_policy_name = <<>>

\* The line a scan at "read" is about to read.
LineAt(s) == pods.items[scans[s].pod].log[scans[s].line]

\* C14: reading a line that holds the prefix and is not JSON changes neither
\* the dedup set nor the collected events, raises no error, and the scan
\* goes on to the next line of the log; nothing malformed is ever in the
\* dedup set or among the collected events.
C14_MalformedLineDiscarded ==
    /\ [](/\ \A c \in Collected : EventOf(c).valid
          /\ \A h \in eventCache : h.md5.valid)
    /\ [][\A s \in 1..Len(scans) :
            (ScanReadLine(s) /\ ~LineAt(s).valid)
               => /\ eventCache' = eventCache
                  /\ scans'[s].events = scans[s].events
                  /\ ~scans'[s].err
                  /\ scans[s].line < Len(pods.items[scans[s].pod].log)
                        => /\ scans'[s].pc = "read"
                           /\ scans'[s].pod = scans[s].pod
                           /\ scans'[s].line = scans[s].line + 1]_vars

\* A finished scan went over a malformed line and collected and printed the
\* line after it.
C14_Witness ==
    /\ pods.items[1].log = <<LineMalformed, LineToken>>
    /\ scans[1].pc = "done"
    /\ ~scans[1].err
    /\ scans[1].events = <<NormalizeTime(LineToken)>>
    /\ eventCache = {Md5Sum(NormalizeTime(LineToken))}
    /\ Len(scans[1].out) = 1

\* The prefix lies somewhere in the text.
HoldsPrefix(text) ==
    \E i \in 1..(Len(text) - Len(TetragonPolicyPrefix) + 1) :
        \A k \in 1..Len(TetragonPolicyPrefix) :
            text[i + k - 1] = TetragonPolicyPrefix[k]

\* The line holds the prefix, and its policy_name starts with the prefix.
Eligible(line) ==
    /\ \/ (line.policy_name # NoValue /\ HoldsPrefix(line.policy_name))
       \/ HoldsPrefix(line.arguments)
       \/ (line.file_path # NoValue /\ HoldsPrefix(line.file_path))
    /\ line.policy_name # NoValue
    /\ Len(line.policy_name) >= Len(TetragonPolicyPrefix)
    /\ \A k \in 1..Len(TetragonPolicyPrefix) :
          line.policy_name[k] = TetragonPolicyPrefix[k]

\* C15: every collected event, every entry of the dedup set and every alert
\* comes from a line that holds the prefix and whose policy_name starts with
\* the prefix; reading any other line leaves the dedup set and the collected
\* events as they are.
C15_PrefixGate ==
    /\ [](/\ \A c \in Collected : Eligible(EventOf(c))
          /\ \A h \in eventCache : Eligible(h.md5)
          /\ \A s \in 1..Len(scans) : \A k \in 1..Len(scans[s].out) :
                \E j \in 1..Len(scans[s].events) :
                    /\ SameFields(scans[s].out[k], scans[s].events[j])
                    /\ Eligible(scans[s].events[j]))
    /\ [][\A s \in 1..Len(scans) :
            (ScanReadLine(s) /\ ~Eligible(LineAt(s)))
               => /\ eventCache' = eventCache
                  /\ scans'[s].events = scans[s].events]_vars

\* A finished scan went over a line whose policy_name holds the prefix in
\* the middle, and collected and printed only the line after it.
C15_Witness ==
    /\ pods.items[1].log = <<LineInfixPolicy, LineToken>>
    /\ scans[1].pc = "done"
    /\ scans[1].events = <<NormalizeTime(LineToken)>>
    /\ eventCache = {Md5Sum(NormalizeTime(LineToken))}
    /\ Len(scans[1].out) = 1

\* The event is a process_kprobe of one of the two file-access functions.
FileAccessKprobe(e) ==
    /\ e.kprobe
    /\ e.function_name = "security_file_permission"
          \/ e.function_name = "security_mmap_file"

\* The alert is classified as C16 says for the event.
Classified(alert, e) ==
    IF FileAccessKprobe(e)
    THEN /\ alert.trap_type = "filesystem_honeytoken"
         /\ Len(alert.metadata) = 1
         /\ e.args = "path" => alert.metadata[1].file_path = e.file_path
    ELSE /\ alert.trap_type = "unknown"
         /\ alert.metadata = <<>>

\* C16: the alert of an event is a filesystem_honeytoken exactly when the
\* event is a process_kprobe of security_file_permission or
\* security_mmap_file, with the path of argument 0 as metadata.file_path;
\* the alert of any other event is unknown with empty metadata.  This holds
\* for the alert of every collected event, whether the lookup of its policy
\* succeeds or not, and for every alert printed.
C16_Classification ==
    \A s \in 1..Len(scans) :
        /\ \A j \in 1..Len(scans[s].events) : \A apiOk \in BOOLEAN :
              Classified(MapTetragonEvent(tpolicies, scans[s].events[j], apiOk),
                         scans[s].events[j])
        /\ \A k \in 1..Len(scans[s].out) :
              \E j \in scans[s].processed :
                  /\ SameFields(scans[s].out[k], scans[s].events[j])
                  /\ Classified(scans[s].out[k], scans[s].events[j])

\* A finished scan printed a filesystem_honeytoken alert with the path for
\* a security_mmap_file event and an unknown alert for an event of another
\* function.
C16_Witness ==
    /\ pods.items[1].log = <<LineMmap, LineTruncate>>
    /\ scans[1].pc = "done"
    /\ \E k, l \in 1..Len(scans[1].out) :
          /\ scans[1].out[k].trap_type = "filesystem_honeytoken"
          /\ scans[1].out[k].metadata = <<[file_path |-> StrAuthTokenPath]>>
          /\ scans[1].out[l].trap_type = "unknown"
          /\ scans[1].out[l].metadata = <<>>

\* Two lines that differ in the fraction of the timestamp and in nothing
\* else.
DifferOnlyInFraction(a, b) ==
    /\ a.frac # b.frac
    /\ [a EXCEPT !.frac = <<>>] = [b EXCEPT !.frac = <<>>]

\* The alerts a scan printed for a line.
AlertsOf(s, line) ==
    {k \in 1..Len(scans[s].out) : SameFields(scans[s].out[k], NormalizeTime(line))}

\* C17 as stated: two lines of a log that differ only in the sub-second part
\* of the timestamp have the same hash (they leave at most one entry in the
\* dedup set), and a scan prints an alert for at most one of them.
C17_SubSecondNormalization ==
    \A p \in 1..Len(pods.items) :
        \A i, j \in 1..Len(pods.items[p].log) :
            LET a == pods.items[p].log[i]
                b == pods.items[p].log[j]
            IN  (a.valid /\ DifferOnlyInFraction(a, b))
                   => /\ \A s \in 1..Len(scans) :
                            Cardinality(AlertsOf(s, a) \cup AlertsOf(s, b)) <= 1
                      /\ Cardinality(eventCache \cap {Md5Sum(NormalizeTime(a)),
                                                       Md5Sum(NormalizeTime(b))}) <= 1

(***************************************************************************)
(* Properties of the generated tracing policies.                           *)
(***************************************************************************)
\* The object names the deception policy as a controlling owner that blocks
\* its deletion.
OwnedBy(obj, dp) ==
    \E r \in 1..Len(obj.ownerReferences) :
        /\ obj.ownerReferences[r].kind = "DeceptionPolicy"
        /\ obj.ownerReferences[r].name = dp.name
        /\ obj.ownerReferences[r].uid = dp.uid
        /\ obj.ownerReferences[r].blockOwnerDeletion = TRUE
        /\ obj.ownerReferences[r].controller = TRUE

\* The deployed policies that have a trap with the tracing policy `name`.
Deployers(name) ==
    {dq \in dpolicies :
        dq.deployed /\ \E j \in 1..Len(dq.traps) : CaptorName(dq.traps[j]) = name}

\* C18: the tracing policy generated for a trap of a deception policy, by
\* the Tetragon or the Kive generator, names the policy as owner with
\* blockOwnerDeletion and controller set, and carries the label
\* koney/deception-policy with the policy's name; the object a deployed
\* policy has in the cluster names it as such an owner and is labelled with
\* the name of a policy that deployed it.
C18_OwnershipMetadata ==
    \A dp \in dpolicies : \A i \in 1..Len(dp.traps) :
        LET generated == CaptorObject(dp, dp.traps[i])
        IN  /\ generated.kind =
                  (IF dp.traps[i].captorStrategy = StrKive THEN "KivePolicy"
                   ELSE "TracingPolicy")
            /\ OwnedBy(generated, dp)
            /\ DOMAIN generated.labels = {"koney/deception-policy"}
            /\ generated.labels["koney/deception-policy"] = dp.name
            /\ dp.deployed =>
                  /\ OwnedBy(DeployedObject(dp, i), dp)
                  /\ DeployedObject(dp, i).labels["koney/deception-policy"]
                        \in {dq.name : dq \in Deployers(CaptorName(dp.traps[i]))}

\* A Tetragon and a Kive tracing policy are in the cluster, each deployed
\* by a policy of its own.
C18_Witness ==
    \E dp, dq \in dpolicies :
        /\ dp.deployed /\ dq.deployed
        /\ dp.traps[1].captorStrategy = StrTetragon
        /\ dq.traps[1].captorStrategy = StrKive
        /\ DeployedObject(dp, 1).kind = "TracingPolicy"
        /\ DeployedObject(dq, 1).kind = "KivePolicy"
        /\ DeployedObject(dq, 1).labels["koney/deception-policy"] = dq.name

\* The container selectors of the filters of a trap.
ContainerSelectors(trap) ==
    {trap.match[f].containerSelector : f \in 1..Len(trap.match)}

\* The container selector of a Tetragon tracing policy is merged from the
\* filters of the trap as C19 says.
MergedFrom(obj, trap) ==
    IF \E cs \in ContainerSelectors(trap) : cs = <<>> \/ cs = <<"*">>
    THEN obj.containerSelector = <<>>
    ELSE /\ Len(obj.containerSelector) = 1
         /\ obj.containerSelector[1].key = "name"
         /\ obj.containerSelector[1].operator = "In"
         /\ {obj.containerSelector[1].values[v] :
                v \in 1..Len(obj.containerSelector[1].values)}
               = ContainerSelectors(trap)
         /\ Len(obj.containerSelector[1].values)
               = Cardinality(ContainerSelectors(trap))

\* C19: the Tetragon tracing policy of a trap has no container selector
\* expression when a filter of the trap, at whatever place, selects all
\* containers; otherwise it has one In expression on "name" whose values are
\* the filters' container names, each once.  This holds for the generated
\* object and for the object a deployed policy has in the cluster.
C19_ContainerSelectorMerging ==
    \A dp \in dpolicies : \A i \in 1..Len(dp.traps) :
        dp.traps[i].captorStrategy = StrTetragon =>
            /\ MergedFrom(generateTetragonTracingPolicy(
                              dp, dp.traps[i],
                              GenerateTetragonTracingPolicyName(dp.traps[i])),
                          dp.traps[i])
            /\ dp.deployed => MergedFrom(DeployedObject(dp, i), dp.traps[i])

\* Deployed: a trap whose last filter selects all containers, and a trap
\* with two container names.
C19_Witness ==
    \E dp, dq \in dpolicies :
        /\ dp.deployed /\ dq.deployed
        /\ dp.traps[1].captorStrategy = StrTetragon
        /\ dq.traps[1].captorStrategy = StrTetragon
        /\ dp.traps[1].match = <<FilterNginx, FilterAll>>
        /\ DeployedObject(dp, 1).containerSelector = <<>>
        /\ dq.traps[1].match = <<FilterNginx, FilterDb>>
        /\ DeployedObject(dq, 1).containerSelector[1].values = <<StrNginx, StrRedis>>

\* The pod selectors of a tracing policy: the one of a Tetragon object, the
\* matchLabels of every match of a Kive object.
PodSelectors(obj) ==
    IF obj.kind = "KivePolicy"
    THEN {obj.traps[1].matchAny[m].matchLabels : m \in 1..Len(obj.traps[1].matchAny)}
    ELSE {obj.podSelector}

\* The filters of the trap that have the label key.
FiltersWith(trap, key) ==
    {f \in 1..Len(trap.match) : key \in DOMAIN trap.match[f].matchLabels}

\* The label keys of all the filters of the trap.
LabelKeys(trap) ==
    UNION {DOMAIN trap.match[f].matchLabels : f \in 1..Len(trap.match)}

\* C20 as stated: for every filter of a trap and every label of the filter,
\* the pod selector of the trap's tracing policy maps the label's key to the
\* label's value.
C20_EveryLabelInPodSelector ==
    \A dp \in dpolicies : \A i \in 1..Len(dp.traps) :
        \A sel \in PodSelectors(CaptorObject(dp, dp.traps[i])) :
            \A f \in 1..Len(dp.traps[i].match) :
                \A key \in DOMAIN dp.traps[i].match[f].matchLabels :
                    /\ key \in DOMAIN sel
                    /\ sel[key] = dp.traps[i].match[f].matchLabels[key]

\* C20, amended: the keys of the pod selector are the label keys of all the
\* filters of the trap, and each key maps to the value of the last filter
\* that has it.  This holds for the generated object of either strategy (for
\* Kive, for every match of the object) and for the object a deployed policy
\* has in the cluster.
C20_LastFilterWins ==
    \A dp \in dpolicies : \A i \in 1..Len(dp.traps) :
        LET trap == dp.traps[i]
            Composed(obj) ==
                \A sel \in PodSelectors(obj) :
                    /\ DOMAIN sel = LabelKeys(trap)
                    /\ \A key \in LabelKeys(trap) :
                          \E f \in FiltersWith(trap, key) :
                              /\ \A g \in FiltersWith(trap, key) : g <= f
                              /\ sel[key] = trap.match[f].matchLabels[key]
        IN  /\ PodSelectors(CaptorObject(dp, trap)) # {}
            /\ Composed(CaptorObject(dp, trap))
            /\ dp.deployed => Composed(DeployedObject(dp, i))

\* Deployed: a Tetragon and a Kive trap whose two filters give the label
\* app two values; the pod selectors have the value of the second filter.
C20_Witness ==
    \E dp, dq \in dpolicies :
        /\ dp.deployed /\ dq.deployed
        /\ dp.traps[1].captorStrategy = StrTetragon
        /\ dq.traps[1].captorStrategy = StrKive
        /\ dp.traps[1].match = <<FilterNginx, FilterDb>>
        /\ dq.traps[1].match = <<FilterNginx, FilterDb>>
        /\ DeployedObject(dp, 1).podSelector[StrApp] = StrDb
        /\ \A sel \in PodSelectors(DeployedObject(dq, 1)) : sel[StrApp] = StrDb

(***************************************************************************)
(* Properties of container selection.                                      *)
(***************************************************************************)
\* The call at hand has returned.
Matched == matchCall # <<>> /\ matchCall[1].done

\* The call selected the container, without an error.
Selected == matchCall[1].selected.match /\ ~matchCall[1].selected.err

\* The selector starts with neither "regex:" nor "glob:".
NoPrefix(selector) ==
    /\ ~(Len(selector) >= 6 /\ SubSeq(selector, 1, 6) = <<"r","e","g","e","x",":">>)
    /\ ~(Len(selector) >= 5 /\ SubSeq(selector, 1, 5) = <<"g","l","o","b",":">>)

\* C21: the empty selector and "*" select every container name (the empty
\* one already in MatchContainerName); a selector without prefix selects
\* exactly the equal name; glob:ng* selects nginx and not redis;
\* regex:^db[0-9]+$ selects db12 and not db.
C21_ContainerSelectorSemantics ==
    Matched =>
        LET selector == matchCall[1].pattern
            name == matchCall[1].containerName
        IN  /\ selector = <<>> => Selected /\ matchCall[1].result.match
            /\ selector = <<"*">> => Selected
            /\ (NoPrefix(selector) /\ selector \notin {<<>>, <<"*">>})
                  => /\ Selected <=> selector = name
                     /\ matchCall[1].result.match <=> selector = name
                     /\ ~matchCall[1].result.err
            /\ selector = <<"g","l","o","b",":","n","g","*">>
                  => /\ name = <<"n","g","i","n","x">> => Selected
                     /\ name = <<"r","e","d","i","s">> => ~Selected
            /\ selector = <<"r","e","g","e","x",":","^","d","b","[","0","-","9","]","+","$">>
                  => /\ name = <<"d","b","1","2">> => Selected
                     /\ name = <<"d","b">> => ~Selected

\* glob:ng* was matched against nginx and selected it.
C21_Witness ==
    /\ Matched
    /\ matchCall[1].pattern = PatternGlobNg
    /\ matchCall[1].containerName = NameNginx
    /\ Selected

\* The selector is "regex:" and a pattern of letters and digits only.
PlainRegex(selector) ==
    /\ Len(selector) > 6
    /\ SubSeq(selector, 1, 6) = <<"r","e","g","e","x",":">>
    /\ \A i \in 7..Len(selector) : ByteRank(selector[i]) > 0

\* C22 as stated: a regex: selector selects a name only if the pattern
\* matches the whole name; for a pattern of letters and digits only, the
\* selected name is the pattern.
C22_RegexWholeName ==
    (Matched /\ PlainRegex(matchCall[1].pattern) /\ Selected)
        => matchCall[1].containerName
              = SubSeq(matchCall[1].pattern, 7, Len(matchCall[1].pattern))

\* The selectors of the universe that are not well-formed.
InvalidPatterns ==
    { <<"g","l","o","b",":","[","n","g">>, <<"g","l","o","b",":","n","g","[">>,
      <<"r","e","g","e","x",":","[","a","-">>, <<"r","e","g","e","x",":","*","d","b">>,
      <<"r","e","g","e","x",":","d","b","*","*">> }

\* C23: a selector whose regex or glob pattern is not well-formed fails
\* with an error for every container name and selects none; an error never
\* comes with a match.
C23_InvalidPatternFails ==
    Matched =>
        /\ matchCall[1].pattern \in InvalidPatterns
              => /\ matchCall[1].result.err /\ ~matchCall[1].result.match
                 /\ matchCall[1].selected.err /\ ~matchCall[1].selected.match
        /\ matchCall[1].result.err => ~matchCall[1].result.match

\* A regex that cannot be compiled was matched against a name and failed.
C23_Witness ==
    /\ Matched
    /\ matchCall[1].pattern = PatternRegexNoOperand
    /\ matchCall[1].containerName = NameDb
    /\ matchCall[1].result.err

(***************************************************************************)
(* Properties of createSecret.                                             *)
(***************************************************************************)
\* The call made by the step at hand.
LastSecretCall == secretCalls'[Len(secretCalls')]

\* C24: a createSecret call for a namespace and name whose secret exists,
\* be it from an earlier call or not, changes no secret and returns no
\* error when the lookup is answered; a call whose lookup fails with
\* another error than not-found returns the error and changes no secret;
\* and the secret of every call that returned no error exists.
C24_CreateSecretIdempotent ==
    /\ [](\A i \in 1..Len(secretCalls) :
             ~secretCalls[i].err
                => <<secretCalls[i].namespace, secretCalls[i].name>> \in DOMAIN secrets)
    /\ [][\A ns \in SecretNamespaces, n \in SecretNames, d \in SecretData :
            CreateSecretCall(ns, n, d)
               => /\ <<ns, n>> \in DOMAIN secrets
                        => /\ secrets' = secrets
                           /\ LastSecretCall.lookupOk => ~LastSecretCall.err
                  /\ ~LastSecretCall.lookupOk
                        => LastSecretCall.err /\ secrets' = secrets]_vars

\* createSecret was called twice for one namespace and name with different
\* data, both calls returned no error, and the secret has the data of the
\* first call.
C24_Witness ==
    /\ Len(secretCalls) = 2
    /\ secretCalls[1].namespace = "prod" /\ secretCalls[2].namespace = "prod"
    /\ secretCalls[1].name = "token-b" /\ secretCalls[2].name = "token-b"
    /\ secretCalls[1].data = "data-1" /\ secretCalls[2].data = "data-2"
    /\ ~secretCalls[1].err /\ ~secretCalls[2].err
    /\ secrets[<<"prod", "token-b">>] = "data-1"

(***************************************************************************)
(* Properties of the health check.                                         *)
(***************************************************************************)
\* C25: GET /healthz is answered 204 when listing pods succeeds in the
\* Tetragon namespace or else in the forwarder's own namespace, and 503
\* when both fail, whether the namespace file can be read or not; it sends
\* no signal to the debouncer.
C25_HealthzReachability ==
    /\ []((lastResponse # <<>> /\ lastResponse[1].path = "/healthz")
             => lastResponse[1].status \in {204, 503})
    /\ [][\A i \in 1..Len(reqs) :
            \A primaryOk, fallbackOk, fileReadable \in BOOLEAN :
               healthzWith(i, primaryOk, fallbackOk, fileReadable)
                  => /\ lastResponse'[1].path = "/healthz"
                     /\ lastResponse'[1].status =
                           (IF primaryOk \/ fallbackOk THEN 204 ELSE 503)
                     /\ triggerChan' = triggerChan]_vars

\* A health check was answered 503.
C25_Witness ==
    /\ lastResponse # <<>>
    /\ lastResponse[1].path = "/healthz"
    /\ lastResponse[1].status = 503

\* A health check was answered 204.
C25_WitnessReachable ==
    /\ lastResponse # <<>>
    /\ lastResponse[1].path = "/healthz"
    /\ lastResponse[1].status = 204

(***************************************************************************)
(* Properties of the logger.                                               *)
(***************************************************************************)
\* C26 as stated: with LOG_LEVEL not set, debug logging is on when DEBUG is
\* a true value, and the level stays info when DEBUG is unset or is one of
\* the values that denote false.
C26_DebugIsBooleanSwitch ==
    (logger # <<>> /\ logger[1].initialised /\ logger[1].LOG_LEVEL = "")
        => /\ logger[1].DEBUG \in {"1", "t", "T", "TRUE", "true", "True"}
                 => logger[1].level = 3
           /\ logger[1].DEBUG \in {"", "0", "f", "F", "FALSE", "false", "False"}
                 => logger[1].level = 2

(***************************************************************************)
(* Liveness of the debouncer.                                              *)
(***************************************************************************)
\* C27: a trigger answered 202 leaves a signal in the channel, whether its
\* own or the one that was pending; and whenever a signal is in the channel
\* a scan starts later on: the number of scans started grows.
C27_NoAcceptedTriggerLost ==
    /\ [][\A i \in 1..Len(reqs) : \A primaryOk, fallbackOk \in BOOLEAN :
            (handleTetragonWith(i, primaryOk, fallbackOk)
                /\ lastResponse'[1].status = 202)
               => triggerChan' > 0]_vars
    /\ \A m \in 0..MaxRequests :
          (triggerChan > 0 /\ Len(scans) = m) ~> (Len(scans) > m)

\* A trigger was accepted and its signal dropped while another signal was
\* pending, and a scan started after it.
C27_Witness ==
    /\ hist.accepted.n = 2
    /\ lastResponse # <<>> /\ lastResponse[1].status = 202 /\ ~lastResponse[1].sent
    /\ Len(scans) = 1
    /\ Quiescent

(***************************************************************************)
(* The log window of a scan.                                               *)
(***************************************************************************)
\* C28: when a scan starts, the log line of every probe event whose trigger
\* arrived since the previous scan is at most SinceSeconds old, so the scan
\* reads it.
C28_ScanWindowCoverage ==
    (window # <<>> /\ window[1].started # <<>>)
        => window[1].started[1] <= SinceSeconds

(***************************************************************************)
(* Scans in progress.                                                      *)
(***************************************************************************)
ScansInProgress == {s \in 1..Len(scans) : scans[s].pc # "done"}

\* C29: at most one processRecentAlerts call is in progress at any time.
C29_AtMostOneScan == Cardinality(ScansInProgress) <= 1

(***************************************************************************)
(* Pods covered by the captor.                                             *)
(***************************************************************************)
\* The pod satisfies at least one filter of the trap.
ReceivesDecoy(trap, pod) ==
    \E f \in 1..Len(trap.match) : SatisfiesFilter(trap.match[f], pod)

\* C30: every pod that satisfies at least one filter of a deployed trap is
\* selected by a pod selector of the tracing policy deployed for the trap.
C30_CaptorCoversPods ==
    \A dp \in dpolicies : \A i \in 1..Len(dp.traps) :
        dp.deployed =>
            \A pod \in WorkloadPods :
                ReceivesDecoy(dp.traps[i], pod) =>
                    \E sel \in PodSelectors(DeployedObject(dp, i)) :
                        LabelSelectorMatches(sel, pod.labels)

(***************************************************************************)
(* Containers covered by the captor.                                       *)
(***************************************************************************)
\* C31: a container name that MatchContainerName selects for the container
\* selector of a filter is admitted by the container selector of the
\* Tetragon tracing policy generated for a trap with that filter, alone or
\* after another filter.
C31_CaptorCoversContainers ==
    (Matched /\ matchCall[1].result.match /\ ~matchCall[1].result.err) =>
        \A match \in {<<FilterSelecting(matchCall[1].pattern)>>,
                      <<FilterDb, FilterSelecting(matchCall[1].pattern)>>} :
            ContainerSelectorAdmits(
                generateTetragonTracingPolicy(
                    PolicyA, TrapMatching(match),
                    GenerateTetragonTracingPolicyName(TrapMatching(match))).containerSelector,
                matchCall[1].containerName)

(***************************************************************************)
(* Fingerprints of other codes.                                            *)
(***************************************************************************)
\* C32: an event whose arguments are the echo form or the cat form of a
\* code other than the active one is printed once the scan has gone
\* through it.
C32_FingerprintSpecificity ==
    \A s \in 1..Len(scans) : \A j \in scans[s].processed :
        \A d \in FingerprintCodes \ {KoneyFingerprint} :
            scans[s].events[j].arguments
                    \in {EncodeFingerprintInEcho(d), EncodeFingerprintInCat(d)}
                => \E k \in 1..Len(scans[s].out) :
                      /\ scans[s].out[k].process # <<>>
                      /\ scans[s].out[k].process[1].arguments = scans[s].events[j].arguments

(***************************************************************************)
(* A trigger that fails the cluster-API check.                             *)
(***************************************************************************)
\* C33: when both List calls fail, the trigger handler answers 401 and
\* leaves the channel, the timers, the scans and the dedup set as they are;
\* a response of the handler after a failed check is always a 401 that sent
\* no signal.
C33_RejectedWithoutEffect ==
    /\ []((lastResponse # <<>> /\ ~lastResponse[1].authOk
              /\ lastResponse[1].path = buildTetragonWebhookUrl.path)
             => (lastResponse[1].status = 401 /\ ~lastResponse[1].sent))
    /\ [][\A i \in 1..Len(reqs) :
            handleTetragonWith(i, FALSE, FALSE)
                => /\ lastResponse'[1].status = 401
                   /\ ~lastResponse'[1].sent
                   /\ triggerChan' = triggerChan
                   /\ timers' = timers
                   /\ timer' = timer
                   /\ scans' = scans
                   /\ eventCache' = eventCache]_vars

\* A trigger was answered 401 while a timer was armed, the channel was empty
\* and the dedup set held an event.
C33_Witness ==
    /\ lastResponse # <<>>
    /\ lastResponse[1].status = 401
    /\ triggerChan = 0
    /\ \E k \in 1..Len(timers) : timers[k].state = "armed"
    /\ eventCache # {}

(***************************************************************************)
(* createSecret calls at the same time.                                    *)
(***************************************************************************)
\* C34: when two createSecret calls for one namespace and name have both
\* returned, the secret exists and neither call returned an error.
C34_ConcurrentCreateSecret ==
    (/\ Len(secretCalls) = 2
     /\ secretCalls[1].pc = "done" /\ secretCalls[2].pc = "done"
     /\ secretCalls[1].namespace = secretCalls[2].namespace
     /\ secretCalls[1].name = secretCalls[2].name)
        => /\ <<secretCalls[1].namespace, secretCalls[1].name>> \in DOMAIN secrets
           /\ ~secretCalls[1].err
           /\ ~secretCalls[2].err

(***************************************************************************)
(* Names of the generator and the prefix of the forwarder.                 *)
(***************************************************************************)
\* An event of the tracing policy: a read of the honeytoken under the name.
LineOfPolicy(name) == [LineToken EXCEPT !.policy_name = name]

\* C35: the name of the tracing policy of every trap, Tetragon's or Kive's,
\* starts with the prefix of the forwarder; the deployed object has that
\* name; and the forwarder collects an event that carries the name.
C35_NamePrefixAgreement ==
    \A dp \in dpolicies : \A i \in 1..Len(dp.traps) :
        LET name == CaptorName(dp.traps[i])
        IN  /\ HasPrefix(name, TetragonPolicyPrefix)
            /\ dp.deployed => DeployedObject(dp, i).name = name
            /\ ReadLine(LineOfPolicy(name), {}).collect

\* A Tetragon trap and a Kive trap are deployed.
C35_Witness ==
    \E dp, dq \in dpolicies :
        /\ dp.deployed /\ dq.deployed
        /\ dp.traps[1].captorStrategy = StrTetragon
        /\ dq.traps[1].captorStrategy = StrKive
        /\ CaptorName(dp.traps[1]) \in DOMAIN tpolicies
        /\ CaptorName(dq.traps[1]) \in DOMAIN tpolicies

(***************************************************************************)
(* Names of Kive tracing policies.                                         *)
(***************************************************************************)
\* The text that was hashed for a name: what stands behind the prefix and
\* the mark of the hash.
HashInput(name) == SubSeq(name, Len(StrTracingPolicyNamePrefix) + 2, Len(name))

\* C36: two Kive traps of policies in the cluster with the same filePath and
\* match get the same tracing-policy name, whatever their decoy strategy,
\* fileContent and readOnly are, and when both are deployed they share one
\* object; two that differ in filePath or match have different texts hashed.
C36_KiveNameMonitoringOnly ==
    \A dp, dq \in dpolicies :
        \A i \in 1..Len(dp.traps), j \in 1..Len(dq.traps) :
            LET t == dp.traps[i]
                u == dq.traps[j]
            IN  (t.captorStrategy = StrKive /\ u.captorStrategy = StrKive) =>
                   /\ (t.filePath = u.filePath /\ t.match = u.match)
                         => /\ GenerateKiveTracingPolicyName(t)
                                  = GenerateKiveTracingPolicyName(u)
                            /\ (dp.deployed /\ dq.deployed)
                                  => DeployedObject(dp, i).name = DeployedObject(dq, j).name
                   /\ (t.filePath # u.filePath \/ t.match # u.match)
                         => HashInput(GenerateKiveTracingPolicyName(t))
                               # HashInput(GenerateKiveTracingPolicyName(u))

\* Two deployed Kive traps differ in fileContent only and have one tracing
\* policy.
C36_Witness ==
    \E dp, dq \in dpolicies :
        /\ dp.deployed /\ dq.deployed
        /\ dp.traps[1].captorStrategy = StrKive
        /\ dp.traps[1].fileContent # dq.traps[1].fileContent
        /\ dp.traps[1] = [dq.traps[1] EXCEPT !.fileContent = dp.traps[1].fileContent]
        /\ Cardinality(DOMAIN tpolicies) = 1

(***************************************************************************)
(* Pods a scan skips.                                                      *)
(***************************************************************************)
\* The pods whose log a scan reads.
ReadablePods ==
    {p \in 1..Len(pods.items) :
        pods.items[p].phase = "Running" /\ pods.items[p].streamOk}

\* C37: a scan fails exactly when listing the pods fails or returns no pod,
\* and then it collects and prints nothing and leaves the dedup set as it
\* is; a scan that does not fail and has ended has printed the event of
\* every pod that runs and whose stream opens, and of no other pod.
C37_PerPodIsolation ==
    /\ [](\A s \in 1..Len(scans) :
            /\ scans[s].err <=>
                  (scans[s].pc # "list" /\ (~pods.listOk \/ Len(pods.items) = 0))
            /\ scans[s].err
                  => scans[s].pc = "done" /\ scans[s].events = <<>> /\ scans[s].out = <<>>
            /\ (scans[s].pc = "done" /\ ~scans[s].err)
                  => /\ \A p \in ReadablePods :
                          \E k \in 1..Len(scans[s].out) :
                              scans[s].out[k].process[1].pid = LineOfPod(p).pid
                     /\ Len(scans[s].out) = Cardinality(ReadablePods))
    /\ [][\A s \in 1..Len(scans) :
            (ScanListPods(s) /\ scans'[s].err) => eventCache' = eventCache]_vars

\* A scan ended without error in a cluster of three pods of which the first
\* does not run and the second has no log stream, and printed one alert.
C37_Witness ==
    /\ Len(pods.items) = 3
    /\ pods.items[1].phase = "Pending"
    /\ pods.items[2].phase = "Running" /\ ~pods.items[2].streamOk
    /\ ReadablePods = {3}
    /\ scans[1].pc = "done" /\ ~scans[1].err
    /\ Len(scans[1].out) = 1
    /\ eventCache # {}

\* A scan failed on a cluster without Tetragon pods and the dedup set still
\* holds what an earlier scan stored.
C37_WitnessFailed ==
    /\ pods.listOk /\ Len(pods.items) = 0
    /\ scans[1].err
    /\ eventCache = {Md5Sum(NormalizeTime(LineToken))}

====
